---- MODULE Spec2Model ----
(***************************************************************************)
(* The streaming DBN decoder of the Python bindings (python/src/lib.rs):   *)
(* a growable byte buffer behind an io::Cursor, the one-time Metadata      *)
(* Block, and the record loop that dispatches RecordRef views on their     *)
(* rtype (rust/dbn/src/record_ref.rs).                                     *)
(*                                                                         *)
(* Bytes are integers 0..255 and sequences are 1-indexed: the byte at Rust *)
(* offset k is buf[k+1].                                                   *)
(***************************************************************************)
EXTENDS Integers, Sequences, FiniteSets, TLC

VARIABLES
    buffer,                 \* DbnDecoder.buffer: the Vec<u8> inside the cursor
    position,               \* DbnDecoder.buffer: the cursor's position
    has_decoded_metadata,   \* DbnDecoder.has_decoded_metadata
    debug_assertions,       \* whether the build keeps debug_assert!
    stdout_ok,              \* whether the process's stdout accepts a write
    bytewise,               \* the producer writes one byte at a time
    hung,                   \* a decode() call that never returns
    items,                  \* the producer's stream, as item kinds
    stream,                 \* the producer's stream, as bytes
    fed,                    \* how many bytes of stream have been written
    writes,                 \* how many write() calls have been made
    out,                    \* everything decode() has returned, in order
    last,                   \* the last call: arguments, state before, result
    split,                  \* progress of a record split across two writes
    poisoned,               \* a decode() call met a too-short known record
    ref,                    \* a RecordRef, the memory it points into, its last call
    enc,                    \* a csv Encoder: its writer, its last call
    ser,                    \* a csv row being serialized: the last call, what it wrote
    cli                     \* a dbz run opening its output: Args, the files, the result

vars == <<buffer, position, has_decoded_metadata, debug_assertions, stdout_ok, bytewise, hung,
          items, stream, fed, writes, out, last, split, poisoned, ref, enc, ser, cli>>

----------------------------------------------------------------------------
(* Bounds of the model *)

\* records after the Metadata Block in the producer's stream
MaxRecs == 2
\* calls made on one csv Encoder
MaxCalls == 2
\* records handed to one encode_records or encode_stream call
MaxBatch == 2
\* book levels of a [BidAskPair; N]
MaxLevels == 3
\* price and timestamp fields written to one row, one call after another
MaxRow == 2

\* the fields of a row of the Encoder's schema R: R::HEADERS.len()
Width == 3
\* size of the mid-record chunk a write may deliver
Cut == 24
\* write() calls of a producer that writes in chunks
MaxWrites == 3
\* bytes of the Metadata Block after its 8-byte prelude
MetaBodyLen == 8

----------------------------------------------------------------------------
(* Record Catalog: discriminants and sizes *)

HeaderSize == 16

MBP_0 == 0
MBP_1 == 1
MBP_10 == 10
OHLCV == 17
STATUS == 18
INSTRUMENT_DEF == 19
IMBALANCE == 20
ERROR == 21
SYMBOL_MAPPING == 22
SYSTEM == 23
STATISTICS == 24
MBO == 160

\* a discriminant no Catalog entry accepts
UNKNOWN_RTYPE == 255

CatalogRTypes ==
    {MBP_0, MBP_1, MBP_10, OHLCV, STATUS, INSTRUMENT_DEF, IMBALANCE, ERROR,
     SYMBOL_MAPPING, SYSTEM, STATISTICS, MBO}

\* T::has_rtype(rtype) of the record types decode() projects to
has_rtype(T, rtype) ==
    CASE T = "TradeMsg"         -> rtype = MBP_0
      [] T = "Mbp1Msg"          -> rtype = MBP_1
      [] T = "Mbp10Msg"         -> rtype = MBP_10
      [] T = "OhlcvMsg"         -> rtype = OHLCV
      [] T = "InstrumentDefMsg" -> rtype = INSTRUMENT_DEF
      [] T = "ErrorMsg"         -> rtype = ERROR
      [] T = "SymbolMappingMsg" -> rtype = SYMBOL_MAPPING
      [] T = "MboMsg"           -> rtype = MBO
      [] OTHER                  -> FALSE

\* mem::align_of::<RecordHeader>()
HeaderAlign == 8

\* mem::size_of::<T>()
size_of(T) ==
    CASE T = "TradeMsg"         -> 48
      [] T = "Mbp1Msg"          -> 80
      [] T = "Mbp10Msg"         -> 368
      [] T = "OhlcvMsg"         -> 56
      [] T = "InstrumentDefMsg" -> 360
      [] T = "ErrorMsg"         -> 80
      [] T = "SymbolMappingMsg" -> 80
      [] T = "MboMsg"           -> 56
      [] T = "StatusMsg"        -> 48
      [] OTHER                  -> HeaderSize

----------------------------------------------------------------------------
(* Small helpers on byte sequences *)

Min(a, b) == IF a < b THEN a ELSE b

Fill(n, v) == [i \in 1..n |-> v]

RECURSIVE Sum(_)
Sum(s) == IF s = <<>> THEN 0 ELSE Head(s) + Sum(Tail(s))

IsPrefix(s, t) == Len(s) <= Len(t) /\ SubSeq(t, 1, Len(s)) = s

----------------------------------------------------------------------------
(* The producer: a Metadata Block followed by records, encoded to bytes *)

RecKinds == {"trade", "status", "unknown", "short"}

KindRType(k) ==
    CASE k = "trade"   -> MBP_0
      [] k = "status"  -> STATUS
      [] k = "unknown" -> UNKNOWN_RTYPE
      [] k = "short"   -> MBP_0
      [] k = "zero"    -> UNKNOWN_RTYPE

\* the bytes the record occupies on the wire: 4 * header.length, but for
\* "zero", a header of an unknown discriminant that declares length 0
KindSize(k) ==
    CASE k = "trade"   -> size_of("TradeMsg")
      [] k = "status"  -> size_of("StatusMsg")
      [] k = "unknown" -> HeaderSize + 8
      [] k = "short"   -> HeaderSize
      [] k = "zero"    -> HeaderSize
      [] k = "meta"    -> 8 + MetaBodyLen
      [] k = "badmeta" -> 8 + MetaBodyLen

\* "DBN", the version, the little-endian u32 length of what follows, the body
MetaPrelude(magic0) ==
    <<magic0, 66, 78, 1,
      MetaBodyLen % 256, (MetaBodyLen \div 256) % 256, 0, 0>>

\* item i of a stream; i tags the payload so records are told apart
ItemBytes(k, i) ==
    CASE k = "meta"    -> MetaPrelude(68) \o Fill(MetaBodyLen, i)
      [] k = "badmeta" -> MetaPrelude(88) \o Fill(MetaBodyLen, i)
      [] k = "zero"    -> <<0, KindRType(k)>> \o Fill(KindSize(k) - 2, i)
      [] OTHER         -> <<KindSize(k) \div 4, KindRType(k)>> \o Fill(KindSize(k) - 2, i)

RECURSIVE StreamFrom(_, _)
StreamFrom(its, i) ==
    IF i > Len(its) THEN <<>> ELSE ItemBytes(its[i], i) \o StreamFrom(its, i + 1)

StreamBytes(its) == StreamFrom(its, 1)

RECURSIVE SeqsUpTo(_, _)
SeqsUpTo(S, n) ==
    IF n = 0 THEN {<<>>}
    ELSE LET shorter == SeqsUpTo(S, n - 1)
         IN  shorter \cup {Append(q, x) : q \in {r \in shorter : Len(r) = n - 1}, x \in S}

Streams ==
    {<<"meta">> \o r : r \in SeqsUpTo(RecKinds, MaxRecs)}
        \cup {<<"badmeta">>, <<"badmeta", "trade">>}
        \cup {<<"meta", "zero">>}

\* offset just past item k of the stream (0 for k = 0)
RECURSIVE ItemEnd(_, _)
ItemEnd(its, k) == IF k = 0 THEN 0 ELSE ItemEnd(its, k - 1) + KindSize(its[k])

ItemStart(its, k) == ItemEnd(its, k - 1)

Boundaries(its) == {ItemEnd(its, k) : k \in 0..Len(its)}

----------------------------------------------------------------------------
(* std::io::Cursor<Vec<u8>> *)

\* Write for Cursor<Vec<u8>>: zero-fill up to the position (an empty slice
\* included), overwrite what is there, append the rest, move the position
\* past the written bytes
vec_write(pos, vec, buf) ==
    LET padded == IF Len(vec) < pos THEN vec \o Fill(pos - Len(vec), 0) ELSE vec
        space  == Len(padded) - pos
        left   == Min(space, Len(buf))
    IN  [vec |-> SubSeq(padded, 1, pos) \o buf
                   \o SubSeq(padded, pos + left + 1, Len(padded)),
         pos |-> pos + Len(buf)]

\* a drain that leaves the last byte read in the buffer
drain_ShortByOne(vec, n) == SubSeq(vec, IF n = 0 THEN 1 ELSE n, Len(vec))

\* Vec::drain(..n)
drain(vec, n) == SubSeq(vec, n + 1, Len(vec))

----------------------------------------------------------------------------
(* Decoders of the dbn crate used by DbnDecoder::decode *)

U32LE(buf, at) ==
    buf[at + 1] + 256 * buf[at + 2] + 65536 * buf[at + 3] + 16777216 * buf[at + 4]

\* MetadataDecoder::new(&mut buffer).decode(), read from offset 0: the
\* prelude, then the body whose length the prelude declares
MetadataDecoder_decode(buf) ==
    IF Len(buf) < 8
    THEN [ok |-> FALSE, err |-> "incomplete", pos |-> 0, len |-> 0]
    ELSE IF SubSeq(buf, 1, 3) # <<68, 66, 78>> \/ buf[4] > 1
    THEN [ok |-> FALSE, err |-> "malformed", pos |-> 8, len |-> 0]
    ELSE IF Len(buf) < 8 + U32LE(buf, 4)
    THEN [ok |-> FALSE, err |-> "incomplete", pos |-> 8, len |-> 0]
    ELSE [ok |-> TRUE, err |-> "none", pos |-> 8 + U32LE(buf, 4),
          len |-> 8 + U32LE(buf, 4)]

\* RecordDecoder::decode_record_ref at cursor position pos: peek the header,
\* stop on an incomplete header or record, else hand out a view over exactly
\* record_size() bytes and move the cursor past them
decode_record_ref(buf, pos) ==
    IF Len(buf) - pos < HeaderSize
    THEN [some |-> FALSE, off |-> pos, size |-> 0, rtype |-> 0, pos |-> pos]
    ELSE LET size == 4 * buf[pos + 1]
         IN  IF Len(buf) - pos < size
             THEN [some |-> FALSE, off |-> pos, size |-> size, rtype |-> 0, pos |-> pos]
             ELSE [some |-> TRUE, off |-> pos, size |-> size,
                   rtype |-> buf[pos + 2], pos |-> pos + size]

----------------------------------------------------------------------------
(* RecordRef *)

\* a constructor that checks nothing in any build
RecordRef_new_Unchecked(len, addr, debug) == "ok"

\* RecordRef::new over a slice of len bytes that starts at address addr: the
\* debug_assert! on the length and the debug_assert_eq! on the alignment stop
\* a build that keeps debug assertions; any other build makes the view
RecordRef_new(len, addr, debug) ==
    IF debug /\ (len < HeaderSize \/ addr % HeaderAlign # 0) THEN "panic" ELSE "ok"

\* RecordRef::from(&r): the pointer to r's header, taken as it is
RecordRef_from(mem) == "ok"

\* RecordRef::unchecked_from_header(header): the pointer taken as it is, in
\* every build
unchecked_from_header(mem) == "ok"

\* self.ptr.as_ref(), the read of a RecordHeader at the pointer: over memory
\* that holds no whole header it reads out of bounds, which is undefined; it
\* faults, or it reads whatever lies behind the memory
deref(mem) == IF mem.blen < HeaderSize THEN {"fault", "read"} ELSE {"read"}

\* RecordRef::header(): the RecordHeader at the pointer, as a read that did
\* not fault finds it
header(mem) == [length |-> mem.length, rtype |-> mem.rtype]

\* RecordRef::record_size(): header().length, in 4-byte words, as bytes, of
\* a header whose read did not fault
record_size(mem) == 4 * header(mem).length

\* a view that takes itself for a record of every type
has_Always(T, rtype) == TRUE

\* RecordRef::has::<T>()
has(T, rtype) == has_rtype(T, rtype)

\* a get that answers None where the record is too short for T
get_NoneWhenShort(T, rtype, size) ==
    IF has(T, rtype) /\ size >= size_of(T) THEN "Some" ELSE "None"

\* RecordRef::get::<T>() on a view of record_size() = size
get(T, rtype, size) ==
    IF has(T, rtype)
    THEN IF size >= size_of(T) THEN "Some" ELSE "panic"
    ELSE "None"

\* RecordRef::get_unchecked::<T>(): two debug_assert!s, then the cast
get_unchecked(T, rtype, size, debug) ==
    IF debug /\ (~has(T, rtype) \/ size < size_of(T)) THEN "panic" ELSE "Some"

\* what a reference made by ptr.cast::<T>().as_ref() denotes: the size_of(T)
\* bytes at the pointer read as a T, which lie inside the memory the view
\* was made from only if that memory is long enough
cast(T, mem) ==
    [type |-> T, hd |-> header(mem), span |-> size_of(T), inside |-> size_of(T) <= mem.blen]

\* RecordRef::as_ref(): slice::from_raw_parts(ptr, record_size()), the
\* record_size() bytes at the pointer, whatever memory the view was made
\* from, when the read of the header did not fault
as_ref(mem) ==
    [type |-> "[u8]", hd |-> header(mem), span |-> record_size(mem),
     inside |-> record_size(mem) <= mem.blen]

----------------------------------------------------------------------------
(* DbnDecoder *)

\* a match whose wildcard arm is missing: what it caught falls to TradeMsg
MatchArm_NoWildcard(rtype) ==
    IF rtype \in {MBP_1, MBP_10, OHLCV, INSTRUMENT_DEF, ERROR, SYMBOL_MAPPING, MBO}
    THEN "Mbp1Msg" ELSE "TradeMsg"

\* the match on rec.header().rtype: the type the arm projects to, or "_"
MatchArm(rtype) ==
    CASE rtype = MBP_0          -> "TradeMsg"
      [] rtype = MBP_1          -> "Mbp1Msg"
      [] rtype = MBP_10         -> "Mbp10Msg"
      [] rtype = OHLCV          -> "OhlcvMsg"
      [] rtype = INSTRUMENT_DEF -> "InstrumentDefMsg"
      [] rtype = ERROR          -> "ErrorMsg"
      [] rtype = SYMBOL_MAPPING -> "SymbolMappingMsg"
      [] rtype = MBO            -> "MboMsg"
      [] OTHER                  -> "_"

\* rec.get::<T>().unwrap().clone(): the owned record, size_of(T) bytes
OwnedRecord(buf, off, T) ==
    [t |-> "rec", rtype |-> buf[off + 2], bytes |-> SubSeq(buf, off + 1, off + size_of(T))]

OwnedMetadata(buf, len) ==
    [t |-> "meta", rtype |-> -1, bytes |-> SubSeq(buf, 1, len)]

\* while let Some(rec) = decoder.decode_record_ref() { match ... }
\* from cursor position pos; frames lists the sizes consumed so far.
\* kind: "ok" the loop ended, "panic" it unwound (cause: "new" the view's
\* debug_assert!, "get" the length assertion of get), "hang" it spins on a
\* record of size 0 that no arm projects
RECURSIVE RecordLoop(_, _, _, _, _)
RecordLoop(buf, pos, recs, frames, debug) ==
    LET r == decode_record_ref(buf, pos)
        T == MatchArm(r.rtype)
    IN  IF ~r.some
        THEN [kind |-> "ok", cause |-> "none", pos |-> r.pos, recs |-> recs,
              frames |-> frames]
        ELSE IF RecordRef_new(r.size, 0, debug) = "panic"
        THEN [kind |-> "panic", cause |-> "new", pos |-> r.pos, recs |-> recs,
              frames |-> frames]
        ELSE IF T # "_"
        THEN IF get(T, r.rtype, r.size) = "Some"
             THEN RecordLoop(buf, r.pos, Append(recs, OwnedRecord(buf, r.off, T)),
                             Append(frames, r.size), debug)
             ELSE [kind |-> "panic", cause |-> "get", pos |-> r.pos, recs |-> recs,
                   frames |-> frames]
        ELSE IF r.size = 0
        THEN [kind |-> "hang", cause |-> "none", pos |-> r.pos, recs |-> recs,
              frames |-> frames]
        ELSE RecordLoop(buf, r.pos, recs, Append(frames, r.size), debug)

\* the Err arm of the metadata match: println! the error, which panics when
\* stdout cannot be written and leaves the cursor where the metadata decoder
\* stopped; otherwise restore the position and return nothing
MetadataErr(buf, saved, meta, stopped, can_print) ==
    IF ~can_print
    THEN [buf |-> buf, pos |-> stopped, meta |-> meta, kind |-> "panic",
          cause |-> "println", items |-> <<>>, frames |-> <<>>]
    ELSE [buf |-> buf, pos |-> saved, meta |-> meta, kind |-> "ok", cause |-> "none",
          items |-> <<>>, frames |-> <<>>]

\* what follows the record loop: drain the bytes read and return recs; a
\* panic unwinds past the drain and returns nothing
AfterLoop(buf, l) ==
    IF l.kind = "ok"
    THEN [buf |-> drain(buf, l.pos), pos |-> l.pos, meta |-> TRUE, kind |-> "ok",
          cause |-> "none", items |-> l.recs, frames |-> l.frames]
    ELSE [buf |-> buf, pos |-> l.pos, meta |-> TRUE, kind |-> l.kind,
          cause |-> l.cause, items |-> <<>>, frames |-> l.frames]

\* DbnDecoder::decode on the state (buf, pos, meta); can_print tells whether
\* the process's standard output accepts a write during the call
decode(buf, pos, meta, debug, can_print) ==
    IF ~meta
    THEN LET m == MetadataDecoder_decode(buf)
         IN  IF ~m.ok
             THEN MetadataErr(buf, pos, meta, m.pos, can_print)
             ELSE AfterLoop(buf, RecordLoop(buf, m.pos, <<OwnedMetadata(buf, m.len)>>,
                                            <<m.len>>, debug))
    ELSE AfterLoop(buf, RecordLoop(buf, 0, <<>>, <<>>, debug))

\* DbnDecoder::write
write(buf, pos, bytes) == vec_write(pos, buf, bytes)

----------------------------------------------------------------------------
(* The state machine: one decoder fed the producer's stream in chunks *)

NoCall ==
    [op |-> "none", arg |-> <<>>, prebuf |-> <<>>, prepos |-> 0, premeta |-> FALSE,
     kind |-> "ok", cause |-> "none", items |-> <<>>, frames |-> <<>>, fed |-> 0,
     prevFail |-> FALSE]

\* no reference yet, over no memory
NoValue == [type |-> "none", hd |-> [length |-> 0, rtype |-> 0], span |-> 0, inside |-> TRUE]

NoMem == [R |-> "none", blen |-> 0, addr |-> 0, length |-> 0, rtype |-> 0]

NoRef == [mem |-> NoMem, via |-> "none", made |-> "none", op |-> "none", T |-> "none",
          res |-> "none", val |-> NoValue]

\* the sink fails nowhere
NoFail == [at |-> "none", idx |-> 0, kind |-> "ok", kept |-> 0]

\* csv::Writer as Encoder::new builds it: no line written, no field count
\* seen yet (first_field_count None, here -1), nothing to flush
NewWriter == [rows |-> <<>>, first_field_count |-> -1, flushed |-> TRUE]

NoEncCall ==
    [op |-> "none", recs |-> <<>>, fail |-> NoFail, pre |-> NewWriter, ret |-> "none",
     err |-> "ok", ctx |-> 0, done |-> <<>>, flushed |-> FALSE, stop |-> "none"]

NoEnc == [writer |-> NewWriter, calls |-> 0, sent |-> 0, last |-> NoEncCall]

NoSer ==
    [op |-> "none", R |-> "none", N |-> 0, PRETTY_PX |-> FALSE, PRETTY_TS |-> FALSE,
     arg |-> [ty |-> "i64", max |-> FALSE, v |-> 0], hdr |-> <<>>, cols |-> <<>>,
     pre |-> <<>>, texts |-> <<>>]

\* a path, as PathBuf::set_extension sees it: file stem and extension
NoPath == [stem |-> "", ext |-> ""]

NoCli ==
    [args |-> [input |-> NoPath, output |-> NoPath, stdout |-> FALSE, force |-> FALSE],
     encoding |-> "Csv", fs |-> <<>>, deny |-> FALSE, pc |-> "none", path |-> NoPath,
     ret |-> "none", err |-> "none", existed |-> FALSE, checked |-> FALSE,
     raced |-> FALSE, before |-> <<>>]

NoSplit == [stage |-> 0, idx |-> 0, ok1 |-> TRUE, ok2 |-> TRUE]

\* the last call was a decode() whose metadata parse failed
LastFailedMetadata ==
    /\ last.op = "decode"
    /\ ~last.premeta
    /\ ~MetadataDecoder_decode(last.prebuf).ok

\* the record the producer encoded as item i
RecordOf(its, i) ==
    [t |-> "rec", rtype |-> KindRType(its[i]), bytes |-> ItemBytes(its[i], i)]

MetadataOf(its) == [t |-> "meta", rtype |-> -1, bytes |-> ItemBytes(its[1], 1)]

Init ==
    /\ buffer = <<>>
    /\ position = 0
    /\ has_decoded_metadata = FALSE
    /\ debug_assertions \in BOOLEAN
    /\ stdout_ok \in BOOLEAN
    /\ bytewise \in BOOLEAN
    /\ hung = FALSE
    /\ items \in Streams
    /\ stream = StreamBytes(items)
    /\ fed = 0
    /\ writes = 0
    /\ out = <<>>
    /\ last = NoCall
    /\ split = NoSplit
    /\ poisoned = FALSE
    /\ ref = NoRef
    /\ enc = NoEnc
    /\ ser = NoSer
    /\ cli = NoCli

\* the offset of the stream at which the buffer handed to the last call began,
\* if that buffer held exactly the bytes written since an item boundary
CleanStart == last.fed - Len(last.prebuf)

\* the last call was a decode() entered with the unconsumed bytes of the
\* stream buffered, none lost, overwritten or padded
CleanDecode ==
    /\ last.op = "decode"
    /\ CleanStart \in Boundaries(items)
    /\ (CleanStart = 0) = ~last.premeta
    /\ last.prebuf = SubSeq(stream, CleanStart + 1, last.fed)

\* the items whose bytes were completely buffered at the last call
Pending ==
    {i \in 1..Len(items) :
        ItemStart(items, i) >= CleanStart /\ ItemEnd(items, i) <= last.fed}

\* the offset of the stream just past the last pending item
PendingEnd ==
    IF Pending = {} THEN CleanStart
    ELSE ItemEnd(items, CHOOSE i \in Pending : \A j \in Pending : j <= i)

\* the decoded items of the pending items of the kinds in keep, in order
RECURSIVE ExpectedFrom(_, _)
ExpectedFrom(i, keep) ==
    IF i > Len(items) THEN <<>>
    ELSE IF i \in Pending /\ items[i] \in keep
    THEN <<IF i = 1 THEN MetadataOf(items) ELSE RecordOf(items, i)>> \o ExpectedFrom(i + 1, keep)
    ELSE ExpectedFrom(i + 1, keep)

\* the wire sizes of the pending items, in order
RECURSIVE SizesFrom(_)
SizesFrom(i) ==
    IF i > Len(items) THEN <<>>
    ELSE IF i \in Pending THEN <<KindSize(items[i])>> \o SizesFrom(i + 1)
    ELSE SizesFrom(i + 1)

\* the last call was a decode() of the stream's own bytes that met, after
\* well-formed items only, a complete record of a known discriminant whose
\* declared length is below its schema's size
MetTruncated ==
    /\ CleanDecode
    /\ items[1] = "meta"
    /\ \E i \in Pending :
          /\ items[i] = "short"
          /\ \A j \in Pending : j < i => items[j] \in {"meta", "trade", "unknown"}

\* the first item boundary after offset n
NextBoundary(n) ==
    CHOOSE b \in Boundaries(items) :
        /\ n < b
        /\ \A c \in Boundaries(items) : n < c => b <= c

\* where the next write may end. Fed bytewise, the producer writes one byte
\* and the consumer decodes after each write; fed in chunks, a write is empty
\* or ends a header or a mid-record chunk on, at the end of the item being
\* written, or at the end of the stream, and the consumer decodes whenever it
\* likes
WriteTargets ==
    IF bytewise
    THEN IF fed >= Len(stream) \/ last.op = "write" THEN {} ELSE {fed + 1}
    ELSE IF writes >= MaxWrites THEN {}
    ELSE IF fed >= Len(stream) THEN {fed}
    ELSE {to \in {fed, fed + HeaderSize, fed + Cut, NextBoundary(fed), Len(stream)} :
            to <= Len(stream)}

\* a write that starts a record at an empty buffer in StreamingRecords and
\* stops inside it
SplitStarts(to) ==
    {i \in 2..Len(items) :
        /\ has_decoded_metadata
        /\ buffer = <<>>
        /\ ItemStart(items, i) = fed
        /\ to < ItemEnd(items, i)
        /\ items[i] = "trade"}

SplitOnWrite(to) ==
    IF SplitStarts(to) # {}
    THEN [stage |-> 1, idx |-> CHOOSE i \in SplitStarts(to) : TRUE,
          ok1 |-> TRUE, ok2 |-> TRUE]
    ELSE IF split.stage = 2 /\ to = ItemEnd(items, split.idx)
    THEN [split EXCEPT !.stage = 3]
    ELSE NoSplit

SplitOnDecode(d) ==
    IF split.stage = 1
    THEN [split EXCEPT !.stage = 2,
                       !.ok1 = /\ d.kind = "ok"
                               /\ d.items = <<>>
                               /\ d.buf = SubSeq(stream, ItemStart(items, split.idx) + 1, fed)]
    ELSE IF split.stage = 3
    THEN [split EXCEPT !.stage = 4,
                       !.ok2 = /\ d.kind = "ok"
                               /\ d.items = <<RecordOf(items, split.idx)>>]
    ELSE NoSplit

\* decoder.write(stream[fed..to])
Write(to) ==
    /\ ~hung
    /\ to \in WriteTargets
    /\ LET bytes == SubSeq(stream, fed + 1, to)
           w     == write(buffer, position, bytes)
       IN  /\ buffer' = w.vec
           /\ position' = w.pos
           /\ last' = [op |-> "write", arg |-> bytes, prebuf |-> buffer,
                       prepos |-> position, premeta |-> has_decoded_metadata,
                       kind |-> "ok", cause |-> "none", items |-> <<>>,
                       frames |-> <<>>, fed |-> to, prevFail |-> LastFailedMetadata]
    /\ fed' = to
    /\ writes' = IF bytewise THEN writes ELSE writes + 1
    /\ split' = SplitOnWrite(to)
    /\ UNCHANGED <<has_decoded_metadata, debug_assertions, stdout_ok, bytewise, hung, items, stream, out,
                   poisoned, ref, enc, ser, cli>>

\* decoder.decode()
Decode ==
    /\ ~hung
    /\ bytewise => last.op = "write"
    /\ LET d == decode(buffer, position, has_decoded_metadata, debug_assertions,
                       stdout_ok)
       IN  /\ buffer' = d.buf
           /\ position' = d.pos
           /\ has_decoded_metadata' = d.meta
           /\ hung' = (d.kind = "hang")
           /\ out' = out \o d.items
           /\ last' = [op |-> "decode", arg |-> <<>>, prebuf |-> buffer,
                       prepos |-> position, premeta |-> has_decoded_metadata,
                       kind |-> d.kind, cause |-> d.cause, items |-> d.items,
                       frames |-> d.frames, fed |-> fed,
                       prevFail |-> LastFailedMetadata]
           /\ split' = SplitOnDecode(d)
    /\ UNCHANGED <<debug_assertions, stdout_ok, bytewise, items, stream, fed, writes, ref, enc, ser, cli>>
    /\ poisoned' = (poisoned \/ MetTruncated')

Next ==
    \/ \E to \in WriteTargets : Write(to)
    \/ Decode

Spec == Init /\ [][Next]_vars

----------------------------------------------------------------------------
(* RecordRef on its own: a view is made over some memory and then queried *)

\* the record types a view is asked for
RecordTypes ==
    {"TradeMsg", "Mbp1Msg", "Mbp10Msg", "OhlcvMsg", "InstrumentDefMsg", "ErrorMsg",
     "SymbolMappingMsg", "MboMsg"}

RTypes == CatalogRTypes \cup {UNKNOWN_RTYPE}

\* a record value r of type R: size_of(R) bytes, aligned as R is, whose
\* header fields are public and hold whatever the owner stored in them
HeaderLengths(R) ==
    {0, HeaderSize \div 4, (size_of(R) \div 4) - 1, size_of(R) \div 4,
     size_of("Mbp1Msg") \div 4}

RecordValues ==
    UNION {{[R |-> R, blen |-> size_of(R), addr |-> 0, length |-> l, rtype |-> t] :
                l \in HeaderLengths(R), t \in RTypes} : R \in RecordTypes}

\* a byte slice of any length at any address; what a header read at its start
\* finds is the slice's bytes, or whatever lies behind a slice too short
ByteSlices ==
    {[R |-> "bytes", blen |-> n, addr |-> a, length |-> l, rtype |-> t] :
        n \in {0, HeaderSize - 1, HeaderSize, size_of("MboMsg")},
        a \in {0, HeaderAlign \div 2},
        l \in {0, size_of("MboMsg") \div 4},
        t \in {MBO, MBP_0, UNKNOWN_RTYPE}}

\* the decoder is not in use
DecoderIdle ==
    /\ buffer = <<>>
    /\ position = 0
    /\ has_decoded_metadata = FALSE
    /\ stdout_ok = TRUE
    /\ bytewise = FALSE
    /\ hung = FALSE
    /\ items = <<>>
    /\ stream = <<>>
    /\ fed = 0
    /\ writes = 0
    /\ out = <<>>
    /\ last = NoCall
    /\ split = NoSplit
    /\ poisoned = FALSE

decoderVars ==
    <<buffer, position, has_decoded_metadata, stdout_ok, bytewise, hung, items, stream, fed,
      writes, out, last, split, poisoned>>

InitRef ==
    /\ DecoderIdle
    /\ debug_assertions \in BOOLEAN
    /\ \E m \in RecordValues \cup ByteSlices : ref = [NoRef EXCEPT !.mem = m]
    /\ enc = NoEnc
    /\ ser = NoSer
    /\ cli = NoCli

\* unsafe { RecordRef::new(buffer) }
RefNew ==
    /\ ref.made = "none"
    /\ ref' = [ref EXCEPT !.via = "new", !.op = "new",
                          !.made = RecordRef_new(ref.mem.blen, ref.mem.addr, debug_assertions)]
    /\ UNCHANGED <<decoderVars, debug_assertions, enc, ser, cli>>

\* RecordRef::from(&r)
RefFrom ==
    /\ ref.made = "none"
    /\ ref.mem.R \in RecordTypes
    /\ ref' = [ref EXCEPT !.via = "from", !.op = "from", !.made = RecordRef_from(ref.mem)]
    /\ UNCHANGED <<decoderVars, debug_assertions, enc, ser, cli>>

\* unsafe { RecordRef::unchecked_from_header(buffer.as_ptr().cast()) }
RefUncheckedFromHeader ==
    /\ ref.made = "none"
    /\ ref' = [ref EXCEPT !.via = "unchecked_from_header", !.op = "unchecked_from_header",
                          !.made = unchecked_from_header(ref.mem)]
    /\ UNCHANGED <<decoderVars, debug_assertions, enc, ser, cli>>

\* a call on the view whose read of the header faulted
Faulted(op, T) == [ref EXCEPT !.op = op, !.T = T, !.res = "fault", !.val = NoValue]

\* the view exists and no call on it has faulted, which ends the process
Usable == ref.made = "ok" /\ ref.res # "fault"

\* view.header()
RefHeader ==
    /\ Usable
    /\ \E rd \in deref(ref.mem) :
          ref' = IF rd = "fault" THEN Faulted("header", "RecordHeader")
                 ELSE [ref EXCEPT !.op = "header", !.T = "RecordHeader", !.res = "Some",
                                  !.val = [NoValue EXCEPT !.type = "RecordHeader",
                                                          !.hd = header(ref.mem),
                                                          !.span = HeaderSize,
                                                          !.inside = HeaderSize <= ref.mem.blen]]
    /\ UNCHANGED <<decoderVars, debug_assertions, enc, ser, cli>>

\* view.has::<T>()
RefHas(T) ==
    /\ Usable
    /\ \E rd \in deref(ref.mem) :
          ref' = IF rd = "fault" THEN Faulted("has", T)
                 ELSE [ref EXCEPT !.op = "has", !.T = T, !.val = NoValue,
                                  !.res = IF has(T, header(ref.mem).rtype)
                                          THEN "true" ELSE "false"]
    /\ UNCHANGED <<decoderVars, debug_assertions, enc, ser, cli>>

\* view.get::<T>()
RefGet(T) ==
    /\ Usable
    /\ \E rd \in deref(ref.mem) :
          LET g == get(T, header(ref.mem).rtype, record_size(ref.mem))
          IN  ref' = IF rd = "fault" THEN Faulted("get", T)
                     ELSE [ref EXCEPT !.op = "get", !.T = T, !.res = g,
                                      !.val = IF g = "Some" THEN cast(T, ref.mem)
                                              ELSE NoValue]
    /\ UNCHANGED <<decoderVars, debug_assertions, enc, ser, cli>>

\* unsafe { view.get_unchecked::<T>() }
RefGetUnchecked(T) ==
    /\ Usable
    /\ \E rd \in deref(ref.mem) :
          LET g == get_unchecked(T, header(ref.mem).rtype, record_size(ref.mem),
                                 debug_assertions)
          IN  ref' = IF rd = "fault" THEN Faulted("get_unchecked", T)
                     ELSE [ref EXCEPT !.op = "get_unchecked", !.T = T, !.res = g,
                                      !.val = IF g = "Some" THEN cast(T, ref.mem)
                                              ELSE NoValue]
    /\ UNCHANGED <<decoderVars, debug_assertions, enc, ser, cli>>

\* view.as_ref()
RefAsRef ==
    /\ Usable
    /\ \E rd \in deref(ref.mem) :
          ref' = IF rd = "fault" THEN Faulted("as_ref", "[u8]")
                 ELSE [ref EXCEPT !.op = "as_ref", !.T = "[u8]", !.res = "Some",
                                  !.val = as_ref(ref.mem)]
    /\ UNCHANGED <<decoderVars, debug_assertions, enc, ser, cli>>

NextRef ==
    \/ RefAsRef
    \/ RefNew
    \/ RefFrom
    \/ RefUncheckedFromHeader
    \/ RefHeader
    \/ \E T \in RecordTypes : RefHas(T)
    \/ \E T \in RecordTypes : RefGet(T)
    \/ \E T \in RecordTypes : RefGetUnchecked(T)

SpecRef == InitRef /\ [][NextRef]_vars

----------------------------------------------------------------------------
(* csv::Encoder *)

\* a line of the writer is the cells written to it, in order, and whether it
\* is still open; a cell is n fields of the header row or of the row of
\* record rec
Cell(h, r, n) == [header |-> h, rec |-> r, n |-> n]

HeaderRow == [cells |-> <<Cell(TRUE, 0, Width)>>, open |-> FALSE]

RecordRow(r) == [cells |-> <<Cell(FALSE, r, Width)>>, open |-> FALSE]

\* the writer has a line without its terminator
OpenLine(w) == w.rows # <<>> /\ w.rows[Len(w.rows)].open

\* the number of fields of the cells cs
RECURSIVE FieldCount(_)
FieldCount(cs) == IF cs = <<>> THEN 0 ELSE Head(cs).n + FieldCount(Tail(cs))

\* csv::Writer's fields_written: the fields of the open line
fields_written(w) == IF OpenLine(w) THEN FieldCount(w.rows[Len(w.rows)].cells) ELSE 0

\* n calls of csv::Writer::write_field: the fields go to the open line, or
\* open a line when there is none
write_fields(w, h, r, n) ==
    IF n = 0 THEN w
    ELSE IF OpenLine(w)
    THEN [w EXCEPT !.rows[Len(w.rows)].cells = Append(@, Cell(h, r, n)),
                   !.flushed = FALSE]
    ELSE [w EXCEPT !.rows = Append(@, [cells |-> <<Cell(h, r, n)>>, open |-> TRUE]),
                   !.flushed = FALSE]

\* csv::Writer::write_record(None), the terminator of a line, on a writer
\* built without flexible, where the sink answers io to the write of the
\* terminator: a line of another field count than the first line ended is
\* refused and stays open; else the count is kept, and the line is ended, or
\* stays open when the sink fails
write_terminator(w, io) ==
    IF w.first_field_count # -1 /\ w.first_field_count # fields_written(w)
    THEN [w |-> w, err |-> "unequal_lengths"]
    ELSE IF io # "ok"
    THEN [w |-> [w EXCEPT !.first_field_count = fields_written(w), !.flushed = FALSE],
          err |-> io]
    ELSE [w |-> [w EXCEPT !.rows[Len(w.rows)].open = FALSE,
                          !.first_field_count = fields_written(w),
                          !.flushed = FALSE],
          err |-> "ok"]

\* self.writer.write_record(R::HEADERS), where the sink answers o: the
\* fields and the terminator are written, or the error o.kind comes back
\* after o.kept fields, at the terminator when all fields are kept
write_record_HEADERS(w, o) ==
    IF o.kind = "ok" \/ o.kept = Width
    THEN write_terminator(write_fields(w, TRUE, 0, Width), o.kind)
    ELSE [w |-> write_fields(w, TRUE, 0, o.kept), err |-> o.kind]

\* record.serialize_to(&mut self.writer), where the sink answers o: the row
\* is written field by field and terminated, or the csv error o.kind comes
\* back after o.kept fields, at the terminator when all fields are kept
serialize_to(w, r, o) ==
    IF o.kind = "ok" \/ o.kept = Width
    THEN write_terminator(write_fields(w, FALSE, r, Width), o.kind)
    ELSE [w |-> write_fields(w, FALSE, r, o.kept), err |-> o.kind]

\* an encode_record that takes every I/O error for a closed pipe
encode_record_AnyIoStops(w, r, o) ==
    LET s == serialize_to(w, r, o)
    IN  IF s.err = "ok" THEN [w |-> s.w, ret |-> "Ok(false)", err |-> "ok", ctx |-> 0]
        ELSE IF s.err \in {"broken_pipe", "io"}
             THEN [w |-> s.w, ret |-> "Ok(true)", err |-> "ok", ctx |-> 0]
             ELSE [w |-> s.w, ret |-> "Err", err |-> s.err, ctx |-> r]

\* Encoder::encode_record
encode_record(w, r, o) ==
    LET s == serialize_to(w, r, o)
    IN  IF s.err = "ok" THEN [w |-> s.w, ret |-> "Ok(false)", err |-> "ok", ctx |-> 0]
        ELSE IF s.err = "broken_pipe"
             THEN [w |-> s.w, ret |-> "Ok(true)", err |-> "ok", ctx |-> 0]
             ELSE [w |-> s.w, ret |-> "Err", err |-> s.err, ctx |-> r]

\* what the sink answers when the header row of a call is written
HeaderOutcome(fail) ==
    IF fail.at = "header" THEN [kind |-> fail.kind, kept |-> fail.kept]
    ELSE [kind |-> "ok", kept |-> 0]

\* what the sink answers when record i of a call is serialized
OutcomeAt(fail, i) ==
    IF fail.at = "record" /\ fail.idx = i THEN [kind |-> fail.kind, kept |-> fail.kept]
    ELSE [kind |-> "ok", kept |-> 0]

\* the loop over the records: if self.encode_record(record)? { return Ok(()) }
RECURSIVE EncodeEach(_, _, _, _, _)
EncodeEach(w, recs, i, fail, done) ==
    IF i > Len(recs)
    THEN [w |-> w, ret |-> "continue", err |-> "ok", ctx |-> 0, done |-> done]
    ELSE LET e == encode_record(w, recs[i], OutcomeAt(fail, i))
         IN  IF e.ret = "Err"
             THEN [w |-> e.w, ret |-> "Err", err |-> e.err, ctx |-> e.ctx, done |-> done]
             ELSE IF e.ret = "Ok(true)"
             THEN [w |-> e.w, ret |-> "return", err |-> "ok", ctx |-> 0, done |-> done]
             ELSE EncodeEach(e.w, recs, i + 1, fail, Append(done, recs[i]))

\* the result of a call that returns ret, and the step that ended it
EncResult(w, ret, err, ctx, done, flushed, stop) ==
    [w |-> w, ret |-> ret, err |-> err, ctx |-> ctx, done |-> done, flushed |-> flushed,
     stop |-> stop]

\* a batch call that returns Ok(()) without the final flush
EncodeAll_NoFlush(w, recs, fail) ==
    LET h == write_record_HEADERS(w, HeaderOutcome(fail))
    IN  IF h.err # "ok"
        THEN EncResult(h.w, "Err", h.err, 0, <<>>, FALSE, "header")
        ELSE LET l == EncodeEach(h.w, recs, 1, fail, <<>>)
             IN  IF l.ret = "Err"
                 THEN EncResult(l.w, "Err", l.err, l.ctx, l.done, FALSE, "record")
                 ELSE EncResult(l.w, "Ok(())", "ok", 0, l.done, FALSE,
                                IF l.ret = "return" THEN "record" ELSE "none")

\* the body encode_records and encode_stream share: the header row, the
\* records until one does not continue, the flush; each ? returns the error
EncodeAll(w, recs, fail) ==
    LET h == write_record_HEADERS(w, HeaderOutcome(fail))
    IN  IF h.err # "ok"
        THEN EncResult(h.w, "Err", h.err, 0, <<>>, FALSE, "header")
        ELSE LET l == EncodeEach(h.w, recs, 1, fail, <<>>)
             IN  IF l.ret = "Err"
                 THEN EncResult(l.w, "Err", l.err, l.ctx, l.done, FALSE, "record")
                 ELSE IF l.ret = "return"
                 THEN EncResult(l.w, "Ok(())", "ok", 0, l.done, FALSE, "record")
                 ELSE IF fail.at = "flush"
                 THEN EncResult(l.w, "Err", fail.kind, 0, l.done, FALSE, "flush")
                 ELSE EncResult([l.w EXCEPT !.flushed = TRUE], "Ok(())", "ok", 0,
                                l.done, TRUE, "none")

\* Encoder::encode_records
encode_records(w, recs, fail) == EncodeAll(w, recs, fail)

\* Encoder::encode_stream
encode_stream(w, recs, fail) == EncodeAll(w, recs, fail)

\* where and how the sink may fail during a call over n records
IoErrors == {"broken_pipe", "io"}

\* a row stops at the error of the sink, at a field or at the terminator
\* (all Width fields kept), or at the error of the serialization of a field,
\* after the kept fields before it
Fails(n) ==
    {NoFail}
        \cup {[at |-> "flush", idx |-> 0, kind |-> k, kept |-> 0] : k \in IoErrors}
        \cup {[at |-> "header", idx |-> 0, kind |-> k, kept |-> c] :
                    k \in IoErrors, c \in 0..Width}
        \cup {[at |-> "record", idx |-> i, kind |-> k, kept |-> c] :
                    i \in 1..n, k \in IoErrors, c \in 0..Width}
        \cup {[at |-> "record", idx |-> i, kind |-> "serialize", kept |-> c] :
                    i \in 1..n, c \in 0..(Width - 1)}

\* the next n records of the caller, each a value of its own
Batch(n) == [i \in 1..n |-> enc.sent + i]

InitEnc ==
    /\ DecoderIdle
    /\ debug_assertions = FALSE
    /\ ref = NoRef
    /\ enc = NoEnc
    /\ ser = NoSer
    /\ cli = NoCli

EncCalled(op, recs, fail, e) ==
    /\ enc.calls < MaxCalls
    /\ enc' = [writer |-> e.w, calls |-> enc.calls + 1, sent |-> enc.sent + Len(recs),
               last |-> [op |-> op, recs |-> recs, fail |-> fail, pre |-> enc.writer,
                         ret |-> e.ret, err |-> e.err, ctx |-> e.ctx, done |-> e.done,
                         flushed |-> e.flushed, stop |-> e.stop]]
    /\ UNCHANGED <<decoderVars, debug_assertions, ref, ser, cli>>

\* encoder.encode_record(&r)
EncodeRecord(fail) ==
    LET recs == Batch(1)
        e    == encode_record(enc.writer, recs[1], OutcomeAt(fail, 1))
    IN  EncCalled("encode_record", recs, fail,
                  EncResult(e.w, e.ret, e.err, e.ctx,
                            IF e.ret = "Ok(false)" THEN recs ELSE <<>>, FALSE,
                            IF e.ret = "Ok(false)" THEN "none" ELSE "record"))

\* encoder.encode_records(&records)
EncodeRecords(n, fail) ==
    EncCalled("encode_records", Batch(n), fail, encode_records(enc.writer, Batch(n), fail))

\* encoder.encode_stream(stream)
EncodeStream(n, fail) ==
    EncCalled("encode_stream", Batch(n), fail, encode_stream(enc.writer, Batch(n), fail))

NextEnc ==
    \/ \E fail \in {f \in Fails(1) : f.at \in {"none", "record"}} : EncodeRecord(fail)
    \/ \E n \in 0..MaxBatch : \E fail \in Fails(n) : EncodeRecords(n, fail)
    \/ \E n \in 0..MaxBatch : \E fail \in Fails(n) : EncodeStream(n, fail)

SpecEnc == InitEnc /\ [][NextEnc]_vars

----------------------------------------------------------------------------
(* csv serialization *)

\* a 64-bit integer: the largest of its type, or a value of at most 31 bits
I64(v) == [ty |-> "i64", max |-> FALSE, v |-> v]

U64(v) == [ty |-> "u64", max |-> FALSE, v |-> v]

\* i64::MAX
UNDEF_PRICE == [ty |-> "i64", max |-> TRUE, v |-> 0]

\* u64::MAX
UNDEF_TIMESTAMP == [ty |-> "u64", max |-> TRUE, v |-> 0]

\* units of a fixed-point price in 1, and nanoseconds in a second
FIXED_PRICE_SCALE == 1000000000

\* {:0w}: s with zeros in front up to w characters
RECURSIVE PadLeft(_, _)
PadLeft(s, w) == IF Len(s) >= w THEN s ELSE PadLeft("0" \o s, w)

\* a value of a primitive type: an integer of at most 31 bits, or a bool as
\* 0 or 1
Prim(ty, v) == [ty |-> ty, max |-> FALSE, v |-> v]

\* u32::MAX
U32_MAX == [ty |-> "u32", max |-> TRUE, v |-> 0]

\* x.to_string(): the decimal literal of an integer, true or false for a bool
to_string(x) ==
    IF x.ty = "bool" THEN (IF x.v = 1 THEN "true" ELSE "false")
    ELSE IF x.max
    THEN CASE x.ty = "i64" -> "9223372036854775807"
           [] x.ty = "u64" -> "18446744073709551615"
           [] x.ty = "u32" -> "4294967295"
    ELSE ToString(x.v)

\* fmt_px: the fixed-point price as a decimal with nine fractional digits
fmt_px(px) ==
    IF px = UNDEF_PRICE THEN "UNDEF_PRICE"
    ELSE LET a == IF px.v < 0 THEN 0 - px.v ELSE px.v
         IN  (IF px.v < 0 THEN "-" ELSE "") \o ToString(a \div FIXED_PRICE_SCALE) \o "."
                \o PadLeft(ToString(a % FIXED_PRICE_SCALE), 9)

\* fmt_ts: nanoseconds since the epoch as a calendar date and time, here for
\* the first minute of 1970
fmt_ts(ts) ==
    IF ts.max THEN ""
    ELSE "1970-01-01T00:00:" \o PadLeft(ToString(ts.v \div FIXED_PRICE_SCALE), 2) \o "."
            \o PadLeft(ToString(ts.v % FIXED_PRICE_SCALE), 9) \o "Z"

\* a write_px_field that renders the sentinel like any other price
write_px_field_NoSentinel(row, PRETTY_PX, px) ==
    Append(row, IF PRETTY_PX THEN fmt_px(px) ELSE to_string(px))

\* write_px_field::<W, PRETTY_PX>(csv_writer, px)
write_px_field(row, PRETTY_PX, px) ==
    IF PRETTY_PX
    THEN IF px = UNDEF_PRICE THEN Append(row, "") ELSE Append(row, fmt_px(px))
    ELSE Append(row, to_string(px))

\* write_ts_field::<W, PRETTY_TS>(csv_writer, ts)
write_ts_field(row, PRETTY_TS, ts) ==
    IF PRETTY_TS
    THEN IF ts = U64(0) \/ ts = UNDEF_TIMESTAMP THEN Append(row, "")
         ELSE Append(row, fmt_ts(ts))
    ELSE Append(row, to_string(ts))

\* (c as u8 as char).to_string(), for the characters the model writes
char_to_string(c) ==
    CASE c = 65 -> "A"
      [] c = 66 -> "B"
      [] c = 68 -> "D"
      [] c = 77 -> "M"
      [] c = 78 -> "N"
      [] c = 83 -> "S"
      [] c = 84 -> "T"
      [] c = 85 -> "U"
      [] c = 89 -> "Y"
      [] c = 126 -> "~"

\* write_c_char_field(csv_writer, c): an empty field for the NUL byte, else
\* the character
write_c_char_field(row, c) ==
    IF c = 0 THEN Append(row, "") ELSE Append(row, char_to_string(c))

\* WriteField::write_header(csv_writer, name), the default: the name
default_write_header(row, name) == Append(row, name)

\* impl_write_field_for! { i64, u64, i32, u32, i16, u16, i8, u8, bool }:
\* write_field writes self.to_string(), whatever PRETTY_PX and PRETTY_TS
impl_write_field_for(row, PRETTY_PX, PRETTY_TS, x) == Append(row, to_string(x))

\* the characters before the first NUL, as text
RECURSIVE UntilNul(_)
UntilNul(chars) ==
    IF chars = <<>> \/ Head(chars) = 0 THEN ""
    ELSE char_to_string(Head(chars)) \o UntilNul(Tail(chars))

\* the bytes before the first NUL are all ASCII
RECURSIVE AsciiUntilNul(_)
AsciiUntilNul(chars) ==
    \/ chars = <<>>
    \/ Head(chars) = 0
    \/ Head(chars) > 0 /\ AsciiUntilNul(Tail(chars))

\* c_chars_to_str(chars): the text up to the first NUL, an error when the
\* bytes are not UTF-8
c_chars_to_str(chars) ==
    IF AsciiUntilNul(chars) THEN [ok |-> TRUE, str |-> UntilNul(chars)]
    ELSE [ok |-> FALSE, str |-> ""]

\* <[c_char; N] as WriteField>::write_field:
\* c_chars_to_str(self).unwrap_or_default()
c_chars_write_field(row, PRETTY_PX, PRETTY_TS, chars) ==
    LET r == c_chars_to_str(chars)
    IN  Append(row, IF r.ok THEN r.str ELSE "")

\* SecurityUpdateAction: Add, Modify, Delete, Invalid, as their bytes
SecurityUpdateAction == {65, 77, 68, 126}

\* UserDefinedInstrument: No, Yes, as their bytes
UserDefinedInstrument == {78, 89}

\* <SecurityUpdateAction as WriteField>::write_field:
\* (*self as u8 as char).to_string()
SecurityUpdateAction_write_field(row, PRETTY_PX, PRETTY_TS, e) ==
    Append(row, char_to_string(e))

\* <UserDefinedInstrument as WriteField>::write_field, likewise
UserDefinedInstrument_write_field(row, PRETTY_PX, PRETTY_TS, e) ==
    Append(row, char_to_string(e))

\* a field of a record: a plain one, or one of a book level
Plain(f) == [f |-> f, level |-> 0 - 1]

AtLevel(f, i) == [f |-> f, level |-> i]

\* format!("{f}_{i:02}")
format_f_i(f, i) == f \o "_" \o PadLeft(ToString(i), 2)

\* the fields of BidAskPair, as the serializers go through them
BidAskPairFields == <<"bid_px", "ask_px", "bid_sz", "ask_sz", "bid_ct", "ask_ct">>

\* the fields of RecordHeader that are written
HeaderFields == <<"rtype", "publisher_id", "product_id", "ts_event">>

\* <RecordHeader as CsvSerialize>::serialize_header: the names of the fields
\* of the header
RecordHeader_serialize_header(row) == row \o HeaderFields

\* <RecordHeader as CsvSerialize>::serialize_to::<W, PRETTY_PX, PRETTY_TS>:
\* the fields of the header, ts_event as a timestamp
RecordHeader_serialize_to(row, PRETTY_PX, PRETTY_TS, hd) ==
    write_ts_field(row \o <<to_string(hd.rtype), to_string(hd.publisher_id),
                            to_string(hd.product_id)>>,
                   PRETTY_TS, hd.ts_event)

\* <RecordHeader as WriteField>::write_field: the whole header
RecordHeader_write_field(row, PRETTY_PX, PRETTY_TS, hd) ==
    RecordHeader_serialize_to(row, PRETTY_PX, PRETTY_TS, hd)

\* <RecordHeader as WriteField>::write_header: the names of the header,
\* whatever the name given
RecordHeader_write_header(row, name) == RecordHeader_serialize_header(row)

\* the fields of n book levels, level by level
LevelFields(n) ==
    [k \in 1..(Len(BidAskPairFields) * n) |->
        AtLevel(BidAskPairFields[((k - 1) % Len(BidAskPairFields)) + 1],
                (k - 1) \div Len(BidAskPairFields))]

PlainFields(names) == [k \in 1..Len(names) |-> Plain(names[k])]

\* <MboMsg as CsvSerialize>::HEADERS
MboMsg_HEADERS ==
    <<"rtype", "publisher_id", "product_id", "ts_event", "order_id", "price", "size",
      "flags", "channel_id", "action", "side", "ts_recv", "ts_in_delta", "sequence">>

\* <Mbp1Msg as CsvSerialize>::HEADERS
Mbp1Msg_HEADERS ==
    <<"rtype", "publisher_id", "product_id", "ts_event", "price", "size", "action",
      "side", "flags", "depth", "ts_recv", "ts_in_delta", "sequence", "bid_px_00",
      "ask_px_00", "bid_sz_00", "ask_sz_00", "bid_ct_00", "ask_ct_00">>

\* <Mbp10Msg as CsvSerialize>::HEADERS
Mbp10Msg_HEADERS ==
    <<"rtype", "publisher_id", "product_id", "ts_event", "price", "size", "action",
      "side", "flags", "depth", "ts_recv", "ts_in_delta", "sequence", "bid_px_00",
      "ask_px_00", "bid_sz_00", "ask_sz_00", "bid_ct_00", "ask_ct_00", "bid_px_01",
      "ask_px_01", "bid_sz_01", "ask_sz_01", "bid_ct_01", "ask_ct_01", "bid_px_02",
      "ask_px_02", "bid_sz_02", "ask_sz_02", "bid_ct_02", "ask_ct_02", "bid_px_03",
      "ask_px_03", "bid_sz_03", "ask_sz_03", "bid_ct_03", "ask_ct_03", "bid_px_04",
      "ask_px_04", "bid_sz_04", "ask_sz_04", "bid_ct_04", "ask_ct_04", "bid_px_05",
      "ask_px_05", "bid_sz_05", "ask_sz_05", "bid_ct_05", "ask_ct_05", "bid_px_06",
      "ask_px_06", "bid_sz_06", "ask_sz_06", "bid_ct_06", "ask_ct_06", "bid_px_07",
      "ask_px_07", "bid_sz_07", "ask_sz_07", "bid_ct_07", "ask_ct_07", "bid_px_08",
      "ask_px_08", "bid_sz_08", "ask_sz_08", "bid_ct_08", "ask_ct_08", "bid_px_09",
      "ask_px_09", "bid_sz_09", "ask_sz_09", "bid_ct_09", "ask_ct_09">>

\* <TradeMsg as CsvSerialize>::HEADERS
TradeMsg_HEADERS ==
    <<"rtype", "publisher_id", "product_id", "ts_event", "price", "size", "action",
      "side", "flags", "depth", "ts_recv", "ts_in_delta", "sequence">>

\* <OhlcvMsg as CsvSerialize>::HEADERS
OhlcvMsg_HEADERS ==
    <<"rtype", "publisher_id", "product_id", "ts_event", "open", "high", "low", "close",
      "volume">>

\* <StatusMsg as CsvSerialize>::HEADERS
StatusMsg_HEADERS ==
    <<"rtype", "publisher_id", "product_id", "ts_event", "ts_recv", "group",
      "trading_status", "halt_reason", "trading_event">>

\* <InstrumentDefMsg as CsvSerialize>::HEADERS
InstrumentDefMsg_HEADERS ==
    <<"rtype", "publisher_id", "product_id", "ts_event", "ts_recv", "min_price_increment",
      "display_factor", "expiration", "activation", "high_limit_price", "low_limit_price",
      "max_price_variation", "trading_reference_price", "unit_of_measure_qty",
      "min_price_increment_amount", "price_ratio", "inst_attrib_value", "underlying_id",
      "cleared_volume", "market_depth_implied", "market_depth", "market_segment_id",
      "max_trade_vol", "min_lot_size", "min_lot_size_block", "min_lot_size_round_lot",
      "min_trade_vol", "open_interest_qty", "contract_multiplier", "decay_quantity",
      "original_contract_size", "related_security_id", "trading_reference_date",
      "appl_id", "maturity_year", "decay_start_date", "channel_id", "currency",
      "settl_currency", "secsubtype", "symbol", "group", "exchange", "asset", "cfi",
      "security_type", "unit_of_measure", "underlying", "related", "match_algorithm",
      "md_security_trading_status", "main_fraction", "price_display_format",
      "settl_price_type", "sub_fraction", "underlying_product", "security_update_action",
      "maturity_month", "maturity_day", "maturity_week", "user_defined_instrument",
      "contract_multiplier_unit", "flow_schedule_type", "tick_rule">>

\* R::HEADERS
HEADERS(R) ==
    CASE R = "MboMsg"           -> MboMsg_HEADERS
      [] R = "Mbp1Msg"          -> Mbp1Msg_HEADERS
      [] R = "Mbp10Msg"         -> Mbp10Msg_HEADERS
      [] R = "TradeMsg"         -> TradeMsg_HEADERS
      [] R = "OhlcvMsg"         -> OhlcvMsg_HEADERS
      [] R = "StatusMsg"        -> StatusMsg_HEADERS
      [] R = "InstrumentDefMsg" -> InstrumentDefMsg_HEADERS

\* the fields of the record structs, in declaration order
StructFields(R) ==
    CASE R = "MboMsg" ->
          <<"hd", "order_id", "price", "size", "flags", "channel_id", "action", "side",
            "ts_recv", "ts_in_delta", "sequence">>
      [] R = "Mbp1Msg" ->
          <<"hd", "price", "size", "action", "side", "flags", "depth", "ts_recv", "ts_in_delta",
            "sequence", "booklevel">>
      [] R = "Mbp10Msg" ->
          <<"hd", "price", "size", "action", "side", "flags", "depth", "ts_recv", "ts_in_delta",
            "sequence", "booklevel">>
      [] R = "TradeMsg" ->
          <<"hd", "price", "size", "action", "side", "flags", "depth", "ts_recv", "ts_in_delta",
            "sequence", "booklevel">>
      [] R = "OhlcvMsg" ->
          <<"hd", "open", "high", "low", "close", "volume">>
      [] R = "StatusMsg" ->
          <<"hd", "ts_recv", "group", "trading_status", "halt_reason", "trading_event">>
      [] R = "InstrumentDefMsg" ->
          <<"hd", "ts_recv", "min_price_increment", "display_factor", "expiration",
            "activation", "high_limit_price", "low_limit_price", "max_price_variation",
            "trading_reference_price", "unit_of_measure_qty", "min_price_increment_amount",
            "price_ratio", "inst_attrib_value", "underlying_id", "cleared_volume",
            "market_depth_implied", "market_depth", "market_segment_id", "max_trade_vol",
            "min_lot_size", "min_lot_size_block", "min_lot_size_round_lot", "min_trade_vol",
            "open_interest_qty", "contract_multiplier", "decay_quantity",
            "original_contract_size", "related_security_id", "trading_reference_date",
            "appl_id", "maturity_year", "decay_start_date", "channel_id", "currency",
            "settl_currency", "secsubtype", "symbol", "group", "exchange", "asset", "cfi",
            "security_type", "unit_of_measure", "underlying", "related", "match_algorithm",
            "md_security_trading_status", "main_fraction", "price_display_format",
            "settl_price_type", "sub_fraction", "underlying_product", "security_update_action",
            "maturity_month", "maturity_day", "maturity_week", "user_defined_instrument",
            "contract_multiplier_unit", "flow_schedule_type", "tick_rule", "_dummy">>

\* the levels of the booklevel array of R
BookLevels(R) ==
    CASE R = "Mbp1Msg"  -> 1
      [] R = "Mbp10Msg" -> 10
      [] OTHER          -> 0

\* csv_writer.serialize(self) for a derived Serialize: the fields in
\* declaration order, hd and booklevel field by field, _dummy skipped
RECURSIVE serde_serialize(_, _)
serde_serialize(R, i) ==
    IF i > Len(StructFields(R)) THEN <<>>
    ELSE LET f == StructFields(R)[i]
         IN  (CASE f = "hd"        -> PlainFields(HeaderFields)
                [] f = "booklevel" -> LevelFields(BookLevels(R))
                [] f = "_dummy"    -> <<>>
                [] OTHER           -> <<Plain(f)>>)
                \o serde_serialize(R, i + 1)

\* <Mbp10Msg as CsvSerialize>::serialize_to: the fields it writes, in order
Mbp10Msg_serialize_to ==
    PlainFields(<<"rtype", "publisher_id", "product_id", "ts_event", "price", "size",
                  "action", "side", "flags", "depth", "ts_recv", "ts_in_delta",
                  "sequence">>)
        \o LevelFields(BookLevels("Mbp10Msg"))

\* record.serialize_to(csv_writer): the fields of a row of schema R
row_fields(R) == IF R = "Mbp10Msg" THEN Mbp10Msg_serialize_to ELSE serde_serialize(R, 1)

\* a header for the levels that names the sizes before the prices
write_header_SizesFirst(N) ==
    [k \in 1..(Len(BidAskPairFields) * N) |->
        format_f_i(<<"bid_sz", "ask_sz", "bid_px", "ask_px", "bid_ct", "ask_ct">>
                        [((k - 1) % Len(BidAskPairFields)) + 1],
                   (k - 1) \div Len(BidAskPairFields))]

\* <[BidAskPair; N] as WriteField>::write_header
write_header(N) ==
    [k \in 1..(Len(BidAskPairFields) * N) |->
        format_f_i(BidAskPairFields[((k - 1) % Len(BidAskPairFields)) + 1],
                   (k - 1) \div Len(BidAskPairFields))]

\* what write_field writes for one level
LevelTexts(level, PRETTY_PX) ==
    write_px_field(write_px_field(<<>>, PRETTY_PX, level.bid_px), PRETTY_PX, level.ask_px)
        \o <<to_string(level.bid_sz), to_string(level.ask_sz),
             to_string(level.bid_ct), to_string(level.ask_ct)>>

\* <[BidAskPair; N] as WriteField>::write_field: the fields written and
\* their texts
RECURSIVE write_field(_, _, _)
write_field(levels, i, PRETTY_PX) ==
    IF i > Len(levels) THEN [cols |-> <<>>, texts |-> <<>>]
    ELSE LET rest == write_field(levels, i + 1, PRETTY_PX)
         IN  [cols  |-> [k \in 1..Len(BidAskPairFields) |->
                            AtLevel(BidAskPairFields[k], i - 1)] \o rest.cols,
              texts |-> LevelTexts(levels[i], PRETTY_PX) \o rest.texts]

\* <WithTsOut<T> as CsvSerialize>::serialize_header
WithTsOut_serialize_header(T) == Append(HEADERS(T), "ts_out")

\* <WithTsOut<T> as CsvSerialize>::serialize_to: the fields written, and the
\* text of the last
WithTsOut_serialize_to(T, PRETTY_TS, ts_out) ==
    [cols  |-> Append(row_fields(T), Plain("ts_out")),
     texts |-> write_ts_field(<<>>, PRETTY_TS, ts_out)]

\* the schemas with a header row
Schemas ==
    {"MboMsg", "Mbp1Msg", "Mbp10Msg", "TradeMsg", "OhlcvMsg", "StatusMsg",
     "InstrumentDefMsg"}

PxValues == {UNDEF_PRICE, I64(0), I64(5500), I64(0 - 1), I64(1500000000)}

TsValues == {UNDEF_TIMESTAMP, U64(0), U64(1), U64(1500000000)}

\* c_char values: NUL, 'A', 'B', 'T'
CChars == {0, 65, 66, 84}

\* values of i64, u64, i32, u32, i16, u16, i8, u8 and bool
PrimValues ==
    {I64(0 - 1), UNDEF_PRICE, U64(0), UNDEF_TIMESTAMP, Prim("i32", 0 - 5),
     Prim("u32", 323), U32_MAX, Prim("i16", 0 - 3), Prim("u16", 65535),
     Prim("i8", 0 - 128), Prim("u8", 255), Prim("bool", 1), Prim("bool", 0)}

\* the names of fields handed to write_header
FieldNames == {"size", "price"}

\* arrays of c_char: all NUL, "USD", "A" with bytes after its NUL, and a
\* byte that is not UTF-8
CCharArrays == {<<0, 0, 0, 0>>, <<85, 83, 68, 0>>, <<65, 0, 66, 0>>, <<0 - 1, 0>>}

\* record headers
RecordHeaders ==
    {[rtype |-> Prim("u8", rt), publisher_id |-> Prim("u16", 1),
      product_id |-> Prim("u32", 323), ts_event |-> ts] :
        rt \in {0, 160}, ts \in TsValues}

\* a book level with the given prices
BidAsk(p, q) ==
    [bid_px |-> p, ask_px |-> q, bid_sz |-> I64(10), ask_sz |-> I64(5),
     bid_ct |-> I64(5), ask_ct |-> I64(2)]

InitSer ==
    /\ DecoderIdle
    /\ debug_assertions = FALSE
    /\ ref = NoRef
    /\ enc = NoEnc
    /\ ser = NoSer
    /\ cli = NoCli

\* the header row of schema R and a row of it, on a new writer
SerSchema(R) ==
    /\ ser.op = "none"
    /\ ser' = [NoSer EXCEPT !.op = "schema", !.R = R, !.hdr = HEADERS(R),
                            !.cols = row_fields(R)]
    /\ UNCHANGED <<decoderVars, debug_assertions, ref, enc, cli>>

\* the header names and the fields of N book levels
SerLevels(N, ppx, pts, p, q) ==
    /\ ser.op = "none"
    /\ LET w == write_field([i \in 1..N |-> BidAsk(p, q)], 1, ppx)
       IN  ser' = [NoSer EXCEPT !.op = "levels", !.N = N, !.PRETTY_PX = ppx,
                                !.PRETTY_TS = pts, !.arg = p, !.hdr = write_header(N),
                                !.cols = w.cols, !.texts = w.texts]
    /\ UNCHANGED <<decoderVars, debug_assertions, ref, enc, cli>>

\* the header row and a row of WithTsOut<T>
SerWithTsOut(T, ppx, pts, ts) ==
    /\ ser.op = "none"
    /\ LET w == WithTsOut_serialize_to(T, pts, ts)
       IN  ser' = [NoSer EXCEPT !.op = "with_ts_out", !.R = T, !.PRETTY_PX = ppx,
                                !.PRETTY_TS = pts, !.arg = ts,
                                !.hdr = WithTsOut_serialize_header(T),
                                !.cols = w.cols, !.texts = w.texts]
    /\ UNCHANGED <<decoderVars, debug_assertions, ref, enc, cli>>

\* the fields an unfinished row holds
OpenRow ==
    IF ser.op \in {"write_px_field", "write_ts_field", "write_c_char_field",
                   "write_header", "impl_write_field_for", "c_chars",
                   "SecurityUpdateAction", "UserDefinedInstrument",
                   "RecordHeader", "RecordHeader_write_header"}
    THEN ser.texts ELSE <<>>

\* write_px_field::<_, PRETTY_PX>(csv_writer, px) inside a serialize_to of
\* parameters PRETTY_PX and PRETTY_TS
SerWritePx(ppx, pts, px) ==
    /\ Len(OpenRow) < MaxRow
    /\ ser' = [NoSer EXCEPT !.op = "write_px_field", !.PRETTY_PX = ppx, !.PRETTY_TS = pts,
                            !.arg = px, !.pre = OpenRow,
                            !.texts = write_px_field(OpenRow, ppx, px)]
    /\ UNCHANGED <<decoderVars, debug_assertions, ref, enc, cli>>

\* write_ts_field::<_, PRETTY_TS>(csv_writer, ts), likewise
SerWriteTs(ppx, pts, ts) ==
    /\ Len(OpenRow) < MaxRow
    /\ ser' = [NoSer EXCEPT !.op = "write_ts_field", !.PRETTY_PX = ppx, !.PRETTY_TS = pts,
                            !.arg = ts, !.pre = OpenRow,
                            !.texts = write_ts_field(OpenRow, pts, ts)]
    /\ UNCHANGED <<decoderVars, debug_assertions, ref, enc, cli>>

\* write_c_char_field(csv_writer, c), likewise
SerWriteCChar(c) ==
    /\ Len(OpenRow) < MaxRow
    /\ ser' = [NoSer EXCEPT !.op = "write_c_char_field",
                            !.arg = [ty |-> "c_char", max |-> FALSE, v |-> c],
                            !.pre = OpenRow,
                            !.texts = write_c_char_field(OpenRow, c)]
    /\ UNCHANGED <<decoderVars, debug_assertions, ref, enc, cli>>

\* <T as WriteField>::write_header(csv_writer, name) of a type that keeps the
\* default
SerWriteHeader(name) ==
    /\ Len(OpenRow) < MaxRow
    /\ ser' = [NoSer EXCEPT !.op = "write_header", !.pre = OpenRow,
                            !.texts = default_write_header(OpenRow, name)]
    /\ UNCHANGED <<decoderVars, debug_assertions, ref, enc, cli>>

\* x.write_field::<_, PRETTY_PX, PRETTY_TS>(csv_writer) of an integer or a bool
SerWriteField(ppx, pts, x) ==
    /\ Len(OpenRow) < MaxRow
    /\ ser' = [NoSer EXCEPT !.op = "impl_write_field_for", !.PRETTY_PX = ppx,
                            !.PRETTY_TS = pts, !.arg = x, !.pre = OpenRow,
                            !.texts = impl_write_field_for(OpenRow, ppx, pts, x)]
    /\ UNCHANGED <<decoderVars, debug_assertions, ref, enc, cli>>

\* chars.write_field::<_, PRETTY_PX, PRETTY_TS>(csv_writer) of a [c_char; N]
SerWriteCChars(ppx, pts, chars) ==
    /\ Len(OpenRow) < MaxRow
    /\ ser' = [NoSer EXCEPT !.op = "c_chars", !.PRETTY_PX = ppx, !.PRETTY_TS = pts,
                            !.arg = [ty |-> "c_chars", max |-> FALSE, v |-> chars],
                            !.pre = OpenRow,
                            !.texts = c_chars_write_field(OpenRow, ppx, pts, chars)]
    /\ UNCHANGED <<decoderVars, debug_assertions, ref, enc, cli>>

\* e.write_field::<_, PRETTY_PX, PRETTY_TS>(csv_writer) of a SecurityUpdateAction
SerWriteSecurityUpdateAction(ppx, pts, e) ==
    /\ Len(OpenRow) < MaxRow
    /\ ser' = [NoSer EXCEPT !.op = "SecurityUpdateAction", !.PRETTY_PX = ppx,
                            !.PRETTY_TS = pts, !.arg = Prim("u8", e), !.pre = OpenRow,
                            !.texts = SecurityUpdateAction_write_field(OpenRow, ppx, pts, e)]
    /\ UNCHANGED <<decoderVars, debug_assertions, ref, enc, cli>>

\* e.write_field::<_, PRETTY_PX, PRETTY_TS>(csv_writer) of a UserDefinedInstrument
SerWriteUserDefinedInstrument(ppx, pts, e) ==
    /\ Len(OpenRow) < MaxRow
    /\ ser' = [NoSer EXCEPT !.op = "UserDefinedInstrument", !.PRETTY_PX = ppx,
                            !.PRETTY_TS = pts, !.arg = Prim("u8", e), !.pre = OpenRow,
                            !.texts = UserDefinedInstrument_write_field(OpenRow, ppx, pts, e)]
    /\ UNCHANGED <<decoderVars, debug_assertions, ref, enc, cli>>

\* hd.write_field::<_, PRETTY_PX, PRETTY_TS>(csv_writer) of a RecordHeader
SerWriteRecordHeader(ppx, pts, hd) ==
    /\ Len(OpenRow) < MaxRow
    /\ ser' = [NoSer EXCEPT !.op = "RecordHeader", !.PRETTY_PX = ppx, !.PRETTY_TS = pts,
                            !.arg = hd.ts_event, !.pre = OpenRow,
                            !.texts = RecordHeader_write_field(OpenRow, ppx, pts, hd)]
    /\ UNCHANGED <<decoderVars, debug_assertions, ref, enc, cli>>

\* <RecordHeader as WriteField>::write_header(csv_writer, name)
SerRecordHeaderWriteHeader(name) ==
    /\ Len(OpenRow) < MaxRow
    /\ ser' = [NoSer EXCEPT !.op = "RecordHeader_write_header", !.pre = OpenRow,
                            !.texts = RecordHeader_write_header(OpenRow, name)]
    /\ UNCHANGED <<decoderVars, debug_assertions, ref, enc, cli>>

NextSer ==
    \/ \E R \in Schemas : SerSchema(R)
    \/ \E N \in 0..MaxLevels, ppx \in BOOLEAN, pts \in BOOLEAN, p \in PxValues, q \in PxValues :
            SerLevels(N, ppx, pts, p, q)
    \/ \E T \in Schemas, ppx \in BOOLEAN, pts \in BOOLEAN, ts \in TsValues :
            SerWithTsOut(T, ppx, pts, ts)
    \/ \E ppx \in BOOLEAN, pts \in BOOLEAN, px \in PxValues : SerWritePx(ppx, pts, px)
    \/ \E ppx \in BOOLEAN, pts \in BOOLEAN, ts \in TsValues : SerWriteTs(ppx, pts, ts)
    \/ \E c \in CChars : SerWriteCChar(c)
    \/ \E name \in FieldNames : SerWriteHeader(name)
    \/ \E ppx \in BOOLEAN, pts \in BOOLEAN, x \in PrimValues : SerWriteField(ppx, pts, x)
    \/ \E ppx \in BOOLEAN, pts \in BOOLEAN, chars \in CCharArrays :
            SerWriteCChars(ppx, pts, chars)
    \/ \E ppx \in BOOLEAN, pts \in BOOLEAN, e \in SecurityUpdateAction :
            SerWriteSecurityUpdateAction(ppx, pts, e)
    \/ \E ppx \in BOOLEAN, pts \in BOOLEAN, e \in UserDefinedInstrument :
            SerWriteUserDefinedInstrument(ppx, pts, e)
    \/ \E ppx \in BOOLEAN, pts \in BOOLEAN, hd \in RecordHeaders :
            SerWriteRecordHeader(ppx, pts, hd)
    \/ \E name \in FieldNames : SerRecordHeaderWriteHeader(name)

SpecSer == InitSer /\ [][NextSer]_vars

----------------------------------------------------------------------------
(* dbz-cli: where the output goes *)

\* the paths a run may name or derive
Path(stem, ext) == [stem |-> stem, ext |-> ext]

Paths == {Path("out", "csv"), Path("data", "csv"), Path("data", "json")}

\* Args, with the fields output_from_args reads; output None is NoPath, and
\* an input without a file name is NoPath too
ArgsValues ==
    [input : {NoPath, Path("data", "dbz")}, output : {NoPath, Path("out", "csv")},
     stdout : BOOLEAN, force : BOOLEAN]

\* PathBuf::set_extension: false if the path has no file name
set_extension(path, extension) ==
    IF path = NoPath THEN [ok |-> FALSE, path |-> path]
    ELSE [ok |-> TRUE, path |-> Path(path.stem, extension)]

\* the match on the encoding
new_extension(encoding) == IF encoding = "Csv" THEN "csv" ELSE "json"

\* an open whose create_new does not insist on creating the file
open_NotExclusive(fs, path, mode, deny) ==
    IF deny THEN [ok |-> FALSE, fs |-> fs, existed |-> fs[path]]
    ELSE [ok |-> TRUE, fs |-> [fs EXCEPT ![path] = TRUE], existed |-> fs[path]]

\* options.open(path) with write(true) and create(true) or create_new(true):
\* one system call, which creates the file if it is absent, fails under
\* create_new if it is present, and fails if the system denies it
open(fs, path, mode, deny) ==
    IF deny \/ (mode = "create_new" /\ fs[path])
    THEN [ok |-> FALSE, fs |-> fs, existed |-> fs[path]]
    ELSE [ok |-> TRUE, fs |-> [fs EXCEPT ![path] = TRUE], existed |-> fs[path]]

\* the branch output_from_args takes: a file to open, standard output, or
\* the error of an input without a file name
output_from_args(args, encoding) ==
    IF args.output # NoPath THEN [to |-> "file", path |-> args.output]
    ELSE IF args.stdout THEN [to |-> "stdout", path |-> NoPath]
    ELSE LET e == set_extension(args.input, new_extension(encoding))
         IN  IF ~e.ok THEN [to |-> "Err", path |-> NoPath]
             ELSE [to |-> "file", path |-> e.path]

InitCli ==
    /\ DecoderIdle
    /\ debug_assertions = FALSE
    /\ ref = NoRef
    /\ enc = NoEnc
    /\ ser = NoSer
    /\ \E a \in ArgsValues, e \in {"Csv", "Json"}, f \in [Paths -> BOOLEAN], d \in BOOLEAN :
            cli = [NoCli EXCEPT !.args = a, !.encoding = e, !.fs = f, !.deny = d,
                                !.pc = "start", !.before = f]

\* the call has returned
CliReturn(ret, err) == [cli EXCEPT !.pc = "done", !.ret = ret, !.err = err]

\* the call has returned after options.open(path) answered o
CliOpened(c, o) ==
    [c EXCEPT !.pc = "done", !.fs = o.fs, !.existed = o.ok /\ o.existed,
              !.ret = IF o.ok THEN "file" ELSE "Err",
              !.err = IF o.ok THEN "none" ELSE "open"]

\* output_from_args up to the first system call of open_output_file and
\* through it: the open under force, else path.exists()
CliCall ==
    /\ cli.pc = "start"
    /\ LET t == output_from_args(cli.args, cli.encoding)
           c == [cli EXCEPT !.path = t.path]
       IN  cli' = IF t.to = "stdout" THEN CliReturn("stdout", "none")
                  ELSE IF t.to = "Err" THEN CliReturn("Err", "extension")
                  ELSE IF cli.args.force
                  THEN CliOpened(c, open(cli.fs, t.path, "create", cli.deny))
                  ELSE IF cli.fs[t.path]
                  THEN [c EXCEPT !.pc = "done", !.ret = "Err", !.err = "exists",
                                 !.checked = TRUE]
                  ELSE [c EXCEPT !.pc = "checked", !.checked = TRUE]
    /\ UNCHANGED <<decoderVars, debug_assertions, ref, enc, ser>>

\* open_output_file after path.exists() answered false: create_new and open
CliOpen ==
    /\ cli.pc = "checked"
    /\ cli' = CliOpened(cli, open(cli.fs, cli.path, "create_new", cli.deny))
    /\ UNCHANGED <<decoderVars, debug_assertions, ref, enc, ser>>

\* another process creates a file
OtherCreates(p) ==
    /\ cli.pc \in {"start", "checked"}
    /\ ~cli.fs[p]
    /\ cli' = [cli EXCEPT !.fs[p] = TRUE, !.before[p] = TRUE,
                          !.raced = cli.raced \/ (cli.pc = "checked" /\ p = cli.path)]
    /\ UNCHANGED <<decoderVars, debug_assertions, ref, enc, ser>>

NextCli ==
    \/ CliCall
    \/ CliOpen
    \/ \E p \in Paths : OtherCreates(p)

SpecCli == InitCli /\ [][NextCli]_vars

----------------------------------------------------------------------------
(* Claims *)

\* a stream of a well-formed Metadata Block and records decode() projects
GoodStream == items[1] = "meta" /\ \A i \in 2..Len(items) : items[i] = "trade"

RECURSIVE RecordsFrom(_)
RecordsFrom(i) ==
    IF i > Len(items) THEN <<>> ELSE <<RecordOf(items, i)>> \o RecordsFrom(i + 1)

\* C1: for a stream of Metadata and records R fed in any chunks, the
\* concatenation of the decode() results is the Metadata followed by exactly
\* R in order: it never holds anything else, and once every byte is written
\* and decode() has run it holds all of it.
C1_RoundTripInChunks ==
    GoodStream =>
        /\ IsPrefix(out, <<MetadataOf(items)>> \o RecordsFrom(2))
        /\ (fed = Len(stream) /\ last.op = "decode")
              => out = <<MetadataOf(items)>> \o RecordsFrom(2)

\* C2: write(b) leaves the buffer equal to the buffer before the call
\* followed by b: nothing overwritten, no padding inserted.
C2_WriteAppends ==
    last.op = "write" => buffer = last.prebuf \o last.arg

\* C3: a record split across two writes, a decode() after each, starting
\* from an empty buffer in StreamingRecords: the first decode() returns no
\* record and keeps the partial record's bytes, the second returns exactly
\* that record.
C3_SplitRecordTwoWrites ==
    /\ split.stage >= 2 => split.ok1
    /\ split.stage = 4 => split.ok2

\* C4: a decode() that meets a complete record of a known discriminant whose
\* length*4 is below its schema's size fails with an error, and neither that
\* call nor any later decode() on the decoder returns a record.
C4_TruncatedIsTerminal ==
    /\ MetTruncated => last.kind = "panic" /\ last.items = <<>>
    /\ (poisoned /\ last.op = "decode") => last.items = <<>>

\* the last call was a decode() of the stream's own bytes, all of them items
\* of the kinds in kinds behind a well-formed Metadata Block
DecodedOnly(kinds) ==
    /\ CleanDecode
    /\ items[1] = "meta"
    /\ \A i \in Pending : items[i] \in kinds

\* C5: a complete record of an unrecognized discriminant and a correct
\* length is skipped: decode() raises nothing, does not return it, moves the
\* cursor past exactly its record_size() bytes, and returns the records
\* around it as if it were absent.
C5_UnknownSkipped ==
    (DecodedOnly({"meta", "trade", "unknown"}) /\ \E i \in Pending : items[i] = "unknown")
        => /\ last.kind = "ok"
           /\ last.items = ExpectedFrom(1, {"meta", "trade"})
           /\ last.frames = SizesFrom(1)
           /\ buffer = SubSeq(stream, PendingEnd + 1, last.fed)

\* C5's case: an unknown record was skipped and a record after it returned
C5_Witness ==
    /\ DecodedOnly({"meta", "trade", "unknown"})
    /\ \E i, j \in Pending :
          /\ i < j
          /\ items[i] = "unknown"
          /\ items[j] = "trade"
          /\ last.items # <<>>
          /\ last.items[Len(last.items)] = RecordOf(items, j)

\* C6: every complete record whose discriminant designates an entry of the
\* Record Catalog is returned by decode(); only records of a discriminant
\* outside the Catalog are left out.
C6_CatalogRecordsReturned ==
    DecodedOnly({"meta", "trade", "status", "unknown"})
        => last.items = ExpectedFrom(1, {"meta", "trade", "status"})

\* the last call was a decode() in AwaitingMetadata whose metadata parse
\* failed for lack of bytes
MetadataIncomplete ==
    /\ last.op = "decode"
    /\ ~last.premeta
    /\ MetadataDecoder_decode(last.prebuf).err = "incomplete"

\* C7: while no Metadata has been decoded, a decode() whose metadata parse
\* fails for lack of bytes returns nothing and leaves the buffer, the write
\* position and the state as they were; a decode() right after it returns
\* nothing again, and a write() right after it appends to the buffered bytes.
C7_IncompleteMetadataLeavesState ==
    /\ MetadataIncomplete =>
          /\ last.kind = "ok"
          /\ last.items = <<>>
          /\ buffer = last.prebuf
          /\ position = last.prepos
          /\ position = Len(buffer)
          /\ ~has_decoded_metadata
    /\ (last.op = "decode" /\ last.prevFail /\ ~MetadataDecoder_decode(last.prebuf).ok)
          => last.kind = "ok" /\ last.items = <<>> /\ buffer = last.prebuf
    /\ (last.op = "write" /\ last.prevFail) => buffer = last.prebuf \o last.arg

\* C8: a decode() on a malformed Metadata Block reports an error to the
\* caller, unlike the empty result of too few bytes, and the decoder stays in
\* AwaitingMetadata.
C8_MalformedMetadataReported ==
    (/\ last.op = "decode"
     /\ ~last.premeta
     /\ MetadataDecoder_decode(last.prebuf).err = "malformed")
        => /\ last.kind \notin {"ok", "hang"}
           /\ ~has_decoded_metadata

MetadataReturned == Len(out) >= 1 /\ out[1].t = "meta"

\* C9: the Metadata is returned once and before any record;
\* has_decoded_metadata is true only if it has been returned, stays true, and
\* no later call parses or returns a Metadata.
C9_MetadataExactlyOnce ==
    /\ \A i \in 1..Len(out) : (out[i].t = "meta") = (i = 1)
    /\ has_decoded_metadata => MetadataReturned
    /\ last.premeta => has_decoded_metadata
    /\ (last.op = "decode" /\ last.premeta)
          => \A i \in 1..Len(last.items) : last.items[i].t # "meta"

\* the last call was a decode() that returned with the Metadata decoded
DecodeReturned ==
    /\ last.op = "decode"
    /\ last.kind = "ok"
    /\ has_decoded_metadata

\* C10: when decode() returns after the Metadata has been decoded, the buffer
\* holds, from offset 0 and in order, exactly the bytes after those consumed
\* as the Metadata Block and as complete records, returned or skipped: what
\* is left is no complete record, and of the stream's own bytes it is the
\* incomplete trailing item.
C10_BufferCompacted ==
    DecodeReturned =>
        /\ Sum(last.frames) <= Len(last.prebuf)
        /\ buffer = SubSeq(last.prebuf, Sum(last.frames) + 1, Len(last.prebuf))
        /\ Len(buffer) < HeaderSize \/ Len(buffer) < 4 * buffer[1]
        /\ CleanDecode => buffer = SubSeq(stream, PendingEnd + 1, last.fed)

\* C10's case: a decode() consumed the Metadata or records and kept the
\* bytes of an incomplete trailing record
C10_Witness ==
    /\ DecodeReturned
    /\ CleanDecode
    /\ \E i \in Pending : items[i] = "trade"
    /\ buffer # <<>>
    /\ buffer = SubSeq(stream, PendingEnd + 1, last.fed)

\* C11: decode() terminates on every buffer content: its record loop never
\* spins, because every record it consumes, returned or skipped, moves the
\* read cursor by at least one byte.
C11_DecodeTerminates ==
    /\ ~hung
    /\ last.op = "decode" => \A i \in 1..Len(last.frames) : last.frames[i] >= 1

(* Claims on RecordRef *)

\* the outcomes of get<T>() on the view's header: None exactly when has<T>()
\* is false, a reference exactly when has<T>() is true and record_size() is
\* at least sizeof(T), a panic exactly when has<T>() is true and
\* record_size() is less
GetOutcome ==
    LET hasT == has_rtype(ref.T, ref.mem.rtype)
        size == 4 * ref.mem.length
    IN  /\ ref.res \in {"None", "Some", "panic"}
        /\ (ref.res = "None") <=> ~hasT
        /\ (ref.res = "Some") <=> (hasT /\ size >= size_of(ref.T))
        /\ (ref.res = "panic") <=> (hasT /\ size < size_of(ref.T))
        /\ (ref.val.type = ref.T) <=> (ref.res = "Some")

\* C12 as stated: for every view and every record type T, get<T>() has
\* exactly three outcomes: None exactly when has<T>() is false; a reference
\* when has<T>() is true and record_size() is at least sizeof(T); a panic,
\* never None and never a reference, when has<T>() is true and record_size()
\* is less than sizeof(T).
C12_GetThreeOutcomes == ref.op = "get" => GetOutcome

\* C12: for every view over memory that holds a whole RecordHeader and every
\* record type T, get<T>() has exactly those three outcomes; over memory
\* shorter than a header, which only the unsafe constructors accept, the read
\* of the header is undefined and the call may also fault.
C12_GetThreeOutcomesOnHeader ==
    ref.op = "get" =>
        /\ ref.mem.blen >= HeaderSize => GetOutcome
        /\ ref.mem.blen < HeaderSize => (ref.res = "fault" \/ GetOutcome)

C12_Witness ==
    /\ ref.op = "get" /\ ref.res = "panic" /\ ref.mem.length > 0
    /\ ref.mem.blen >= HeaderSize

\* the slice RecordRef::new was given is too short or misaligned for a header
BadSlice == ref.mem.blen < HeaderSize \/ ref.mem.addr % HeaderAlign # 0

\* C13 as stated: RecordRef::new validates length and alignment, so no view
\* exists over an undersized or misaligned slice.
C13_NewValidates == (ref.via = "new" /\ ref.made = "ok") => ~BadSlice

\* C13: RecordRef::new checks the length and the alignment of the slice only
\* in a build that keeps debug assertions, where a violating slice panics; in
\* any other build it checks nothing and makes a view over every slice.
C13_NewValidatesInDebugOnly ==
    ref.via = "new" =>
        /\ ref.made \in {"ok", "panic"}
        /\ (ref.made = "panic") <=> (debug_assertions /\ BadSlice)

C13_Witness ==
    /\ ref.via = "new" /\ ref.made = "ok" /\ ~debug_assertions
    /\ ref.mem.blen < HeaderSize

\* the view was made from a record value r of type R, by From, by new or by
\* unchecked_from_header
OfRecord == ref.made = "ok" /\ ref.mem.R \in RecordTypes

\* r itself, as the value a reference to it denotes
SourceRecord ==
    [type |-> ref.mem.R, hd |-> [length |-> ref.mem.length, rtype |-> ref.mem.rtype],
     span |-> size_of(ref.mem.R), inside |-> TRUE]

ViewAnswersForRecord ==
    /\ ref.op = "header" => ref.val.hd = SourceRecord.hd
    /\ (ref.op = "has" /\ ref.T = ref.mem.R) => ref.res = "true"
    /\ (ref.op = "has" /\ ~has_rtype(ref.T, ref.mem.rtype)) => ref.res = "false"
    /\ (ref.op \in {"get", "get_unchecked"} /\ ref.T = ref.mem.R)
            => (ref.res = "Some" /\ ref.val = SourceRecord)

\* C14 as stated: for a view made from any record value r of type R,
\* header() is r's header, has<R>() is true, has<T>() is false for every T
\* that does not accept r's rtype, and get<R>() and get_unchecked<R>() yield
\* a record equal to r.
C14_ViewOfRecord == OfRecord => ViewAnswersForRecord

\* r's header is the one RecordHeader::new::<R> builds: an rtype R accepts
\* and a length that covers R
HeaderFitsType ==
    /\ has_rtype(ref.mem.R, ref.mem.rtype)
    /\ 4 * ref.mem.length >= size_of(ref.mem.R)

\* C14: for a view made from a record value r of type R whose header holds an
\* rtype R accepts and a length of at least sizeof(R), header() is r's
\* header, has<R>() is true, has<T>() is false for every T that does not
\* accept r's rtype, and get<R>() and get_unchecked<R>() yield a record equal
\* to r.
C14_ViewOfWellFormedRecord == (OfRecord /\ HeaderFitsType) => ViewAnswersForRecord

C14_Witness ==
    /\ OfRecord /\ HeaderFitsType
    /\ ref.via = "from" /\ ref.op = "get" /\ ref.T = ref.mem.R /\ ref.val = SourceRecord

(* Claims on csv::Encoder *)

\* the cells of the lines rows, in the order they were written
RECURSIVE CellsOf(_)
CellsOf(rows) == IF rows = <<>> THEN <<>> ELSE Head(rows).cells \o CellsOf(Tail(rows))

\* the cells a call added to the writer
AddedCells ==
    SubSeq(CellsOf(enc.writer.rows), Len(CellsOf(enc.last.pre.rows)) + 1,
           Len(CellsOf(enc.writer.rows)))

IsRecordCell(c) == ~c.header

\* the whole rows of the records recs, as cells
CellsOfRecords(recs) == [i \in 1..Len(recs) |-> Cell(FALSE, recs[i], Width)]

\* a whole row written to the writer as the call found it makes a line of a
\* field count the writer refuses
RowRefused(w) ==
    w.first_field_count # -1 /\ w.first_field_count # fields_written(w) + Width

\* how the serialization of a row ends on the writer w when the sink answers
\* o: with the sink's or the serializer's error at a field, with the refusal
\* of the line's field count at the terminator, or as the sink answers the
\* terminator
SerializeEnds(w, o) ==
    IF o.kind # "ok" /\ o.kept < Width THEN o.kind
    ELSE IF RowRefused(w) THEN "unequal_lengths"
    ELSE o.kind

\* C15: encode_record returns Ok(false) exactly when the record was
\* serialized (all its fields written and its line ended), Ok(true) exactly
\* when serialization failed with the I/O error BrokenPipe, and Err for every
\* other failure (another I/O error, a serialization error, a line of the
\* wrong field count), the error carrying the record as its context.
C15_EncodeRecordResult ==
    enc.last.op = "encode_record" =>
        LET o == OutcomeAt(enc.last.fail, 1)
            r == enc.last.recs[1]
            end == SerializeEnds(enc.last.pre, o)
        IN  /\ enc.last.ret \in {"Ok(false)", "Ok(true)", "Err"}
            /\ (enc.last.ret = "Ok(false)") <=> (end = "ok")
            /\ (enc.last.ret = "Ok(false)")
                    <=> (AddedCells = CellsOfRecords(<<r>>) /\ ~OpenLine(enc.writer))
            /\ (enc.last.ret = "Ok(true)") <=> (end = "broken_pipe")
            /\ (enc.last.ret = "Err") <=> (end \in {"io", "serialize", "unequal_lengths"})
            /\ enc.last.ret = "Err" => (enc.last.ctx = r /\ enc.last.err = end)
            /\ enc.last.ret # "Ok(false)" =>
                    /\ AddedCells = (IF o.kind # "ok" /\ o.kept < Width
                                     THEN (IF o.kept = 0 THEN <<>>
                                           ELSE <<Cell(FALSE, r, o.kept)>>)
                                     ELSE CellsOfRecords(<<r>>))
                    /\ AddedCells # <<>> => OpenLine(enc.writer)

C15_Witness ==
    /\ enc.last.op = "encode_record"
    /\ enc.last.ret = "Err" /\ enc.last.err = "io" /\ enc.last.ctx = enc.last.recs[1]
    /\ enc.last.fail.kept > 0

\* the last call was encode_records or encode_stream
BatchCall == enc.last.op \in {"encode_records", "encode_stream"}

\* C16: encode_records and encode_stream serialize the records in input
\* order and stop at the first whose encode_record result is not Continue:
\* on StopEarly they return Ok(()) and on an error that Err, and serialize no
\* later record, the record that stopped the call leaving at most fields of
\* its own; if every record continues, all are serialized and the writer is
\* flushed before Ok(()) is returned.
C16_BatchInOrderUntilStop ==
    (BatchCall /\ enc.last.stop # "header") =>
        LET f == enc.last.fail
            recs == enc.last.recs
            n == Len(enc.last.done)
            written == SelectSeq(AddedCells, IsRecordCell)
        IN  /\ AddedCells # <<>> /\ AddedCells[1] = Cell(TRUE, 0, Width)
            /\ IsPrefix(enc.last.done, recs)
            /\ \/ written = CellsOfRecords(enc.last.done)
               \/ /\ enc.last.stop = "record"
                  /\ \E k \in 1..Width :
                        written = Append(CellsOfRecords(enc.last.done),
                                         Cell(FALSE, recs[n + 1], k))
            /\ enc.last.stop = "record" =>
                /\ n < Len(recs)
                /\ ~enc.last.flushed
                /\ enc.last.ret = "Ok(())" =>
                        (f.at = "record" /\ f.idx = n + 1 /\ f.kind = "broken_pipe")
                /\ (/\ f.at = "record" /\ f.idx = n + 1
                    /\ f.kind = "broken_pipe" /\ f.kept < Width) => enc.last.ret = "Ok(())"
                /\ enc.last.ret # "Ok(())" =>
                        /\ enc.last.ret = "Err" /\ enc.last.ctx = recs[n + 1]
                        /\ \/ enc.last.err = "unequal_lengths"
                           \/ /\ f.at = "record" /\ f.idx = n + 1
                              /\ enc.last.err = f.kind /\ f.kind \in {"io", "serialize"}
            /\ enc.last.stop # "record" =>
                /\ enc.last.done = recs
                /\ enc.last.ret = "Ok(())" => (enc.last.flushed /\ enc.writer.flushed)
            /\ enc.last.stop = "none" => enc.last.ret = "Ok(())"

C16_Witness ==
    /\ enc.last.op = "encode_records"
    /\ Len(enc.last.recs) = MaxBatch
    /\ enc.last.fail.at = "record" /\ enc.last.fail.idx = 1
    /\ enc.last.fail.kind = "broken_pipe" /\ enc.last.fail.kept > 0
    /\ enc.last.ret = "Ok(())" /\ enc.last.done = <<>>

\* C17: during encode_records and encode_stream a BrokenPipe of the sink is
\* never returned to the caller as Err, at whichever step it occurs: the
\* header row, a record, or the final flush.
C17_BrokenPipeNeverErr ==
    BatchCall => ~(enc.last.ret = "Err" /\ enc.last.err = "broken_pipe")

\* C18: over any sequence of calls on one Encoder the output holds exactly
\* one header row, which precedes every record row; no header row follows a
\* record row.
C18_HeaderOnce ==
    LET cells == CellsOf(enc.writer.rows)
    IN  cells # <<>> => \A i \in 1..Len(cells) : cells[i].header <=> (i = 1)

(* Claims on csv serialization *)

\* the column a field belongs under
ColumnName(x) ==
    IF x.level < 0 THEN x.f
    ELSE x.f \o "_" \o (IF x.level < 10 THEN "0" ELSE "") \o ToString(x.level)

\* C19: the header row has as many columns as a data row has fields, in the
\* same order: Mbp10Msg writes 13 fixed fields and 6 per level for 10 levels
\* under 73 header names; [BidAskPair; N] writes 6N header names, bid_px,
\* ask_px, bid_sz, ask_sz, bid_ct, ask_ct with the two-digit level, and 6N
\* fields in that order; WithTsOut<T> adds one header, ts_out, and one field,
\* both last.
C19_HeaderMatchesFields ==
    /\ ser.op \in {"schema", "levels", "with_ts_out"} =>
        /\ Len(ser.hdr) = Len(ser.cols)
        /\ \A k \in 1..Len(ser.hdr) : ser.hdr[k] = ColumnName(ser.cols[k])
    /\ (ser.op = "schema" /\ ser.R = "Mbp10Msg") =>
        /\ Len(ser.hdr) = 73
        /\ Len(ser.cols) = 13 + 6 * 10
        /\ \A k \in 1..13 : ser.cols[k].level < 0
        /\ \A k \in 14..73 : ser.cols[k].level = (k - 14) \div 6
    /\ ser.op = "levels" =>
        /\ Len(ser.hdr) = 6 * ser.N
        /\ Len(ser.cols) = 6 * ser.N
        /\ Len(ser.texts) = 6 * ser.N
        /\ \A i \in 0..(ser.N - 1) :
             /\ \A j \in 1..6 : ser.cols[6 * i + j] = [f |-> BidAskPairFields[j], level |-> i]
             /\ ser.hdr[6 * i + 1] = ColumnName([f |-> "bid_px", level |-> i])
             /\ ser.hdr[6 * i + 2] = ColumnName([f |-> "ask_px", level |-> i])
             /\ ser.hdr[6 * i + 3] = ColumnName([f |-> "bid_sz", level |-> i])
             /\ ser.hdr[6 * i + 4] = ColumnName([f |-> "ask_sz", level |-> i])
             /\ ser.hdr[6 * i + 5] = ColumnName([f |-> "bid_ct", level |-> i])
             /\ ser.hdr[6 * i + 6] = ColumnName([f |-> "ask_ct", level |-> i])
    /\ ser.op = "with_ts_out" =>
        /\ ser.hdr = HEADERS(ser.R) \o <<"ts_out">>
        /\ Len(ser.cols) = Len(HEADERS(ser.R)) + 1
        /\ ser.cols[Len(ser.cols)] = [f |-> "ts_out", level |-> 0 - 1]
        /\ Len(ser.texts) = 1

C19_Witness ==
    /\ ser.op = "levels" /\ ser.N = MaxLevels
    /\ ser.hdr[Len(ser.hdr)] = "ask_ct_0" \o ToString(MaxLevels - 1)

\* the decimal literal of a 64-bit integer
Literal(x) ==
    IF x = UNDEF_PRICE THEN "9223372036854775807"
    ELSE IF x = UNDEF_TIMESTAMP THEN "18446744073709551615"
    ELSE ToString(x.v)

\* C20: the two toggles are independent. write_px_field writes an empty
\* field for the undefined price with pretty prices on and the literal
\* integer with them off, whatever the pretty-timestamp setting;
\* write_ts_field writes an empty field for 0 and for the undefined timestamp
\* with pretty timestamps on and the literal integer with them off, whatever
\* the pretty-price setting; each call writes exactly one field.
C20_TogglesIndependent ==
    ser.op \in {"write_px_field", "write_ts_field"} =>
        LET t == ser.texts[Len(ser.texts)]
        IN  /\ Len(ser.texts) = Len(ser.pre) + 1
            /\ SubSeq(ser.texts, 1, Len(ser.pre)) = ser.pre
            /\ ser.op = "write_px_field" =>
                /\ ser.PRETTY_PX => ((t = "") <=> (ser.arg = UNDEF_PRICE))
                /\ ~ser.PRETTY_PX => t = Literal(ser.arg)
            /\ ser.op = "write_ts_field" =>
                /\ ser.PRETTY_TS => ((t = "") <=> (ser.arg \in {U64(0), UNDEF_TIMESTAMP}))
                /\ ~ser.PRETTY_TS => t = Literal(ser.arg)

C20_Witness ==
    /\ ser.op = "write_px_field" /\ ser.PRETTY_PX /\ ~ser.PRETTY_TS
    /\ ser.arg = UNDEF_PRICE /\ ser.texts[Len(ser.texts)] = ""
    /\ Len(ser.pre) = 1 /\ ser.pre[1] = "0"

(* Claims on dbz-cli *)

\* the run opened or created a file
OpenedFile == cli.ret = "file" \/ cli.fs # cli.before

\* C21: the stdout option overrides the output argument: for every Args with
\* stdout set, output_from_args returns standard output, also when output is
\* Some(path), and opens or creates no file.
C21_StdoutOverridesOutput ==
    (cli.pc = "done" /\ cli.args.stdout) => (cli.ret = "stdout" /\ ~OpenedFile)

\* the call went through open_output_file and has returned
OpenReturned == cli.pc = "done" /\ cli.path # NoPath

\* C22: without the force flag open_output_file never opens or modifies an
\* existing file: it returns an error if the path exists at the existence
\* check, and also if another process creates the file between the check and
\* the open; with the force flag the existence of the file never makes the
\* call fail.
C22_NoClobberWithoutForce ==
    /\ ~cli.args.force =>
        /\ ~cli.existed
        /\ (OpenReturned /\ cli.before[cli.path] /\ ~cli.raced)
                => (cli.ret = "Err" /\ cli.err = "exists")
        /\ (OpenReturned /\ cli.raced) => (cli.ret = "Err" /\ cli.err = "open")
        /\ (OpenReturned /\ cli.ret = "file") => (~cli.before[cli.path] /\ cli.fs[cli.path])
        /\ cli.ret # "file" => cli.fs = cli.before
    /\ (cli.args.force /\ OpenReturned) =>
        /\ cli.ret = "file" <=> ~cli.deny
        /\ cli.ret = "file" => (cli.fs[cli.path] /\ cli.existed = cli.before[cli.path])

C22_Witness ==
    /\ ~cli.args.force /\ OpenReturned /\ cli.raced /\ ~cli.deny
    /\ cli.ret = "Err" /\ cli.err = "open"

(* Claims on the memory a RecordRef exposes *)

\* C23: every byte range a RecordRef exposes lies inside the memory the view
\* was made from, for every value of the header's length field: the T that
\* get<T>() returns covers at most the bytes of the slice given to new or of
\* the record given to From, and the slice as_ref() returns, of length
\* record_size(), does not extend past them.
C23_RangesInsideMemory ==
    (ref.op \in {"get", "as_ref"} /\ ref.res = "Some")
        => (ref.val.span <= ref.mem.blen /\ ref.val.inside)

====
